---- MODULE Spec2Model ----
(***************************************************************************)
(* A model of kontext's core: the dotfile symlink engine                   *)
(* (ConfigFileManager), the directory resolver (DirectoryScanner), the     *)
(* profile store (ProfileManager), the delete command, activation and      *)
(* deactivation (EnvironmentManager), the hook runner (HookManager) and    *)
(* the shell integration (kontext hook init).                              *)
(*                                                                         *)
(* Paths are sequences of one-character strings, so that String.startsWith *)
(* is a real prefix test and `..' segments are real path components.       *)
(***************************************************************************)
EXTENDS Integers, Sequences, FiniteSets, TLC

VARIABLES
    fs,         \* dotfile engine: the filesystem, path -> node
    backups,    \* ConfigFileManager.backups, resolved target -> DotfileBackup
    now,        \* Date.now()
    dotfiles,   \* the profile's dotfiles mapping, a sequence of entries
    trail,      \* the dotfile operations performed so far, with their results
    mfs,        \* directory resolver: marker path -> marker file
    scan,       \* the last call of the directory resolver and its outcome
    disk,       \* profile store: the filesystem below the profiles root
    input,      \* the Profile object handed to createProfile / updateProfile
    cwd,        \* process.cwd() of the CLI invocation
    last,       \* the last store operation or command and its outcome
    orig,       \* name -> the profile of its last successful createProfile
    hist,       \* the store's history: how it started, the names created
                \* and not deleted since
    em,         \* activation: the profile, the filesystem, the backups map
    out,        \* what the last EnvironmentManager call or command printed
    sh,         \* the shell evaluating what was printed
    hk          \* HookManager: the executeHook call, its child and its timer

dfVars == <<fs, backups, now, dotfiles, trail>>

scanVars == <<mfs, scan>>

storeVars == <<disk, input, cwd, last, orig, hist>>

envVars == <<em, out, sh>>

vars == <<fs, backups, now, dotfiles, trail, mfs, scan,
          disk, input, cwd, last, orig, hist, em, out, sh, hk>>

-----------------------------------------------------------------------------
(* Bounds *)

MaxOps == 3         \* dotfile operations per behaviour
MaxNow == 1         \* clock values 0..MaxNow
MaxEntries == 2     \* entries of a dotfiles mapping
MaxHops == 2        \* symlinks followed when resolving one path
MaxDepth == 2       \* depth of the deepest directory a scan starts from
MaxEvals == 2       \* outputs the shell evaluates in one behaviour
MaxLen == 3         \* characters of a marker file's content

\* the profile store left alone
StoreIdle ==
    /\ disk = <<>>
    /\ input = <<>>
    /\ cwd = <<>>
    /\ last = [op |-> "none"]
    /\ orig = <<>>
    /\ hist = <<>>

\* activation left alone
EnvIdle ==
    /\ em = <<>>
    /\ out = [op |-> "none"]
    /\ sh = <<>>

\* no hook called
HookIdle == hk = <<>>

-----------------------------------------------------------------------------
(* Strings *)

PH == "${KONTEXT_PROFILE_DIR}"

Digits == <<"0", "1", "2", "3", "4", "5", "6", "7", "8", "9">>

startsWith(s, prefix) ==
    /\ Len(s) >= Len(prefix)
    /\ SubSeq(s, 1, Len(prefix)) = prefix

RECURSIVE SplitAcc(_, _, _)
SplitAcc(s, cur, acc) ==
    IF s = <<>> THEN Append(acc, cur)
    ELSE IF Head(s) = "/" THEN SplitAcc(Tail(s), <<>>, Append(acc, cur))
    ELSE SplitAcc(Tail(s), Append(cur, Head(s)), acc)

\* the components of a path, empty ones included
Split(s) == SplitAcc(s, <<>>, <<>>)

RECURSIVE Join(_)
Join(comps) ==
    IF comps = <<>> THEN <<>>
    ELSE <<"/">> \o Head(comps) \o Join(Tail(comps))

\* an absolute path from its stack of components
AbsPath(stack) == IF stack = <<>> THEN <<"/">> ELSE Join(stack)

Front(s) == SubSeq(s, 1, Len(s) - 1)

RECURSIVE NormComps(_, _)
NormComps(comps, stack) ==
    IF comps = <<>> THEN stack
    ELSE LET c == Head(comps) IN
         IF c = <<>> \/ c = <<".">> THEN NormComps(Tail(comps), stack)
         ELSE IF c = <<".", ".">>
              THEN NormComps(Tail(comps),
                             IF stack = <<>> THEN stack ELSE Front(stack))
              ELSE NormComps(Tail(comps), Append(stack, c))

\* path.normalize / path.resolve of an absolute path
normalize(p) == AbsPath(NormComps(Split(p), <<>>))

dirname(p) ==
    LET st == NormComps(Split(p), <<>>) IN
    IF st = <<>> THEN <<"/">> ELSE AbsPath(Front(st))

-----------------------------------------------------------------------------
(* The filesystem *)

NoPath == <<>>

File(d) == [kind |-> "file", data |-> d, to |-> <<>>]
Dir == [kind |-> "dir", data |-> "", to |-> <<>>]
Link(t) == [kind |-> "link", data |-> "", to |-> t]

IsDir(f, p) == p = <<"/">> \/ (p \in DOMAIN f /\ f[p].kind = "dir")

\* the kernel's walk of a path: every directory on the way must exist
RECURSIVE KWalk(_, _, _)
KWalk(f, comps, stack) ==
    IF comps = <<>> THEN AbsPath(stack)
    ELSE LET c == Head(comps) IN
         IF c = <<>> THEN KWalk(f, Tail(comps), stack)
         ELSE IF ~IsDir(f, AbsPath(stack)) THEN NoPath
         ELSE IF c = <<".">> THEN KWalk(f, Tail(comps), stack)
         ELSE IF c = <<".", ".">>
              THEN KWalk(f, Tail(comps),
                         IF stack = <<>> THEN stack ELSE Front(stack))
              ELSE KWalk(f, Tail(comps), Append(stack, c))

KPath(f, p) == KWalk(f, Split(p), <<>>)

\* lstat succeeds: something is at the path, a symlink is not followed
LExists(f, p) == KPath(f, p) /= NoPath /\ KPath(f, p) \in DOMAIN f

Node(f, p) == f[KPath(f, p)]

RECURSIVE Access(_, _, _)
Access(f, p, hops) ==
    /\ LExists(f, p)
    /\ Node(f, p).kind = "link" =>
           /\ hops > 0
           /\ Access(f, Node(f, p).to, hops - 1)

Put(f, p, n) == [q \in DOMAIN f \cup {p} |-> IF q = p THEN n ELSE f[q]]

Del(f, p) == [q \in DOMAIN f \ {p} |-> f[q]]

\* the paths at or below p
Subtree(f, p) == {q \in DOMAIN f : q = p \/ startsWith(q, p \o <<"/">>)}

Reprefix(q, old, new) == new \o SubSeq(q, Len(old) + 1, Len(q))

-----------------------------------------------------------------------------
(* fs.promises calls; each yields the new filesystem and whether it succeeded *)

Ok(f) == [fs |-> f, ok |-> TRUE]
Err(f) == [fs |-> f, ok |-> FALSE]

\* fs.promises.symlink(to, p): EEXIST when anything is at p
symlink(f, to, p) ==
    IF KPath(f, p) = NoPath \/ LExists(f, p) THEN Err(f)
    ELSE Ok(Put(f, KPath(f, p), Link(to)))

\* fs.promises.unlink(p): removes a file or a symlink, never a directory
unlink(f, p) ==
    IF ~LExists(f, p) \/ Node(f, p).kind = "dir" THEN Err(f)
    ELSE Ok(Del(f, KPath(f, p)))

\* fs.promises.rename(old, new): moves the node and what is below it
rename(f, old, new) ==
    IF ~LExists(f, old) \/ KPath(f, new) = NoPath THEN Err(f)
    ELSE LET o == KPath(f, old)
             n == KPath(f, new)
             moved == Subtree(f, o)
             kept == (DOMAIN f \ moved) \ Subtree(f, n)
         IN  Ok([q \in kept \cup {Reprefix(m, o, n) : m \in moved} |->
                    IF q \in kept THEN f[q]
                    ELSE f[Reprefix(q, n, o)]])

RECURSIVE MkdirStack(_, _, _)
MkdirStack(f, comps, stack) ==
    IF comps = <<>> THEN Ok(f)
    ELSE LET here == AbsPath(Append(stack, Head(comps))) IN
         IF here \in DOMAIN f
         THEN IF f[here].kind = "dir"
              THEN MkdirStack(f, Tail(comps), Append(stack, Head(comps)))
              ELSE Err(f)
         ELSE MkdirStack(Put(f, here, Dir), Tail(comps),
                         Append(stack, Head(comps)))

\* fs.promises.mkdir(p, { recursive: true })
mkdir(f, p) == MkdirStack(f, NormComps(Split(p), <<>>), <<>>)

-----------------------------------------------------------------------------
(* ConfigFileManager *)

profileDir == <<"/", "p">>
homedir == <<"/", "h">>

fileExists(f, p) == Access(f, p, MaxHops)

RECURSIVE resolveProfilePath(_, _)
resolveProfilePath(pd, pathTemplate) ==
    IF pathTemplate = <<>> THEN <<>>
    ELSE (IF Head(pathTemplate) = PH THEN pd ELSE <<Head(pathTemplate)>>)
         \o resolveProfilePath(pd, Tail(pathTemplate))

resolvePath(pathTemplate) ==
    IF startsWith(pathTemplate, <<"~", "/">>)
    THEN normalize(homedir \o <<"/">> \o
                   SubSeq(pathTemplate, 3, Len(pathTemplate)))
    ELSE normalize(pathTemplate)

\* the state the engine works on while one operation runs
Eng(f, b, e, m) == [fs |-> f, backups |-> b, err |-> e, made |-> m]

backupPathOf(filePath, t) == filePath \o <<".", "b">> \o <<Digits[t + 1]>>

\* the one element of a singleton set; the results of the fs calls below are
\* bound through it, so that each call is evaluated once
The(S) == CHOOSE x \in S : TRUE

backupExistingFile(st, filePath, t) ==
    LET stats == Node(st.fs, filePath)
        backupPath == backupPathOf(filePath, t)
        isLink == stats.kind = "link"
        backup == [originalPath |-> filePath,
                   backupPath |-> backupPath,
                   wasSymlink |-> isLink,
                   symlinkTarget |-> IF isLink THEN stats.to ELSE <<>>]
    IN  The({IF ~r.ok THEN Eng(r.fs, st.backups, "IOError", st.made)
             ELSE Eng(r.fs,
                      [k \in DOMAIN st.backups \cup {filePath} |->
                          IF k = filePath THEN backup ELSE st.backups[k]],
                      "none", st.made) :
             r \in {IF isLink THEN unlink(st.fs, filePath)
                    ELSE rename(st.fs, filePath, backupPath)}})

\* lines 60-66, once the source is validated and the target directory exists
backupAndLink(st, i, resolvedSourcePath, resolvedTargetPath, t) ==
    The({IF st2.err /= "none" THEN st2
         ELSE The({IF ~l.ok
                   THEN Eng(l.fs, st2.backups, "IOError", st2.made)
                   ELSE Eng(l.fs, st2.backups, "none", st2.made \cup {i}) :
                   l \in {symlink(st2.fs, resolvedSourcePath,
                                  resolvedTargetPath)}}) :
         st2 \in {IF fileExists(st.fs, resolvedTargetPath)
                  THEN backupExistingFile(st, resolvedTargetPath, t)
                  ELSE st}})

\* createDotfileSymlink creating the target directory before it looks at the
\* source
createDotfileSymlink_MkdirFirst(st, pd, i, entry, t) ==
    LET resolvedTargetPath == resolvePath(entry.target)
        resolvedSourcePath == resolveProfilePath(pd, entry.source)
        targetDir == dirname(resolvedTargetPath)
    IN  IF ~startsWith(resolvedSourcePath, pd)
        THEN Eng(st.fs, st.backups, "PathEscape", st.made)
        ELSE The({IF ~d.ok THEN Eng(d.fs, st.backups, "IOError", st.made)
                  ELSE IF ~fileExists(d.fs, resolvedSourcePath)
                  THEN Eng(d.fs, st.backups, "SourceMissing", st.made)
                  ELSE backupAndLink(Eng(d.fs, st.backups, "none", st.made),
                                     i, resolvedSourcePath,
                                     resolvedTargetPath, t) :
                  d \in {IF ~fileExists(st.fs, targetDir)
                         THEN mkdir(st.fs, targetDir) ELSE Ok(st.fs)}})

createDotfileSymlink(st, pd, i, entry, t) ==
    LET resolvedTargetPath == resolvePath(entry.target)
        resolvedSourcePath == resolveProfilePath(pd, entry.source)
        targetDir == dirname(resolvedTargetPath)
    IN  IF ~startsWith(resolvedSourcePath, pd)
        THEN Eng(st.fs, st.backups, "PathEscape", st.made)
        ELSE IF ~fileExists(st.fs, resolvedSourcePath)
        THEN Eng(st.fs, st.backups, "SourceMissing", st.made)
        ELSE The({IF ~d.ok THEN Eng(d.fs, st.backups, "IOError", st.made)
                  ELSE backupAndLink(Eng(d.fs, st.backups, "none", st.made),
                                     i, resolvedSourcePath,
                                     resolvedTargetPath, t) :
                  d \in {IF ~fileExists(st.fs, targetDir)
                         THEN mkdir(st.fs, targetDir) ELSE Ok(st.fs)}})

\* lines 81-92, after the target has been unlinked
restoreBackup(st, f, resolvedTargetPath) ==
    IF resolvedTargetPath \notin DOMAIN st.backups
    THEN Eng(f, st.backups, "none", st.made)
    ELSE LET backup == st.backups[resolvedTargetPath] IN
         The({IF ~r.ok THEN Eng(r.fs, st.backups, "IOError", st.made)
              ELSE Eng(r.fs,
                       [k \in DOMAIN st.backups \ {resolvedTargetPath} |->
                           st.backups[k]],
                       "none", st.made) :
              r \in {IF backup.wasSymlink /\ backup.symlinkTarget /= <<>>
                     THEN symlink(f, backup.symlinkTarget,
                                  resolvedTargetPath)
                     ELSE IF fileExists(f, backup.backupPath)
                     THEN rename(f, backup.backupPath, resolvedTargetPath)
                     ELSE Ok(f)}})

removeDotfileSymlink(st, targetPath) ==
    LET resolvedTargetPath == resolvePath(targetPath) IN
    The({IF ~u.ok THEN Eng(u.fs, st.backups, "IOError", st.made)
         ELSE restoreBackup(st, u.fs, resolvedTargetPath) :
         u \in {IF fileExists(st.fs, resolvedTargetPath)
                THEN unlink(st.fs, resolvedTargetPath) ELSE Ok(st.fs)}})

\* the loop of applyDotfiles from entry i on; a throw ends it
RECURSIVE applyFrom(_, _, _, _, _)
applyFrom(st, pd, map, i, t) ==
    IF i > Len(map) THEN st @@ [failedAt |-> 0]
    ELSE The({IF s.err /= "none" THEN s @@ [failedAt |-> i]
              ELSE applyFrom(s, pd, map, i + 1, t) :
              s \in {createDotfileSymlink(st, pd, i, map[i], t)}})

applyDotfiles(f, b, pd, map, t) ==
    applyFrom(Eng(f, b, "none", {}), pd, map, 1, t)

RECURSIVE removeFrom(_, _, _)
removeFrom(st, map, i) ==
    IF i > Len(map) THEN st @@ [failedAt |-> 0]
    ELSE The({IF s.err /= "none" THEN s @@ [failedAt |-> i]
              ELSE removeFrom(s, map, i + 1) :
              s \in {removeDotfileSymlink(st, map[i].target)}})

removeDotfiles(f, b, map) == removeFrom(Eng(f, b, "none", {}), map, 1)

-----------------------------------------------------------------------------
(* DirectoryScanner *)

PROFILE_FILE_NAME == <<".kontext-profile">>

\* path.join(dir, name)
join(dir, name) == normalize(dir \o <<"/">> \o name)

Whitespace == {" ", "\n", "\t"}

NameChars == {"w", "p", "-", "_", "1"}

RECURSIVE trimStart(_)
trimStart(s) ==
    IF s /= <<>> /\ Head(s) \in Whitespace THEN trimStart(Tail(s)) ELSE s

RECURSIVE trimEnd(_)
trimEnd(s) ==
    IF s /= <<>> /\ s[Len(s)] \in Whitespace THEN trimEnd(Front(s)) ELSE s

\* String.prototype.trim
trim(s) == trimEnd(trimStart(s))

\* /^[a-zA-Z0-9_-]+$/.test(s)
NamePattern(s) == s /= <<>> /\ \A i \in 1..Len(s) : s[i] \in NameChars

markerExists(m, filePath) == filePath \in DOMAIN m

Found(path, checked) == [found |-> TRUE, path |-> path, checked |-> checked]
NotFound(checked) == [found |-> FALSE, path |-> <<>>, checked |-> checked]

\* findRoot without the check of the root directory
findRoot_Skipped(m, root, checked) == NotFound(checked)

\* lines 29-35: the root directory is checked after the loop
findRoot(m, root, checked) ==
    LET rootProfilePath == join(root, PROFILE_FILE_NAME) IN
    IF markerExists(m, rootProfilePath)
    THEN Found(rootProfilePath, Append(checked, rootProfilePath))
    ELSE NotFound(Append(checked, rootProfilePath))

\* the loop with the root tested inside it as well as after it
RECURSIVE findLoop_RootTwice(_, _, _, _)
findLoop_RootTwice(m, searchDir, root, checked) ==
    LET profilePath == join(searchDir, PROFILE_FILE_NAME)
        parentDir == dirname(searchDir)
    IN  IF markerExists(m, profilePath)
        THEN Found(profilePath, Append(checked, profilePath))
        ELSE IF parentDir = searchDir
             THEN findRoot(m, root, Append(checked, profilePath))
             ELSE findLoop_RootTwice(m, parentDir, root,
                                     Append(checked, profilePath))

\* lines 15-27: the upward loop, checked lists the paths it has tested
RECURSIVE findLoop(_, _, _, _)
findLoop(m, searchDir, root, checked) ==
    IF searchDir /= root
    THEN LET profilePath == join(searchDir, PROFILE_FILE_NAME)
             parentDir == dirname(searchDir)
         IN  IF markerExists(m, profilePath)
             THEN Found(profilePath, Append(checked, profilePath))
             ELSE IF parentDir = searchDir
                  THEN findRoot(m, root, Append(checked, profilePath))
                  ELSE findLoop(m, parentDir, root,
                                Append(checked, profilePath))
    ELSE findRoot(m, root, checked)

findProfileFile(m, startDir) ==
    findLoop(m, normalize(startDir), <<"/">>, <<>>)

\* readProfileName testing the trimmed content and returning the content
readProfileName_Untrimmed(m, profileFilePath) ==
    IF ~markerExists(m, profileFilePath)
    THEN [ok |-> FALSE, name |-> <<>>, error |-> "NotFound"]
    ELSE IF ~m[profileFilePath].readable
    THEN [ok |-> FALSE, name |-> <<>>, error |-> "ReadError"]
    ELSE LET profileName == trim(m[profileFilePath].content) IN
         IF profileName = <<>>
         THEN [ok |-> FALSE, name |-> <<>>, error |-> "Empty"]
         ELSE IF ~NamePattern(profileName)
         THEN [ok |-> FALSE, name |-> <<>>, error |-> "InvalidName"]
         ELSE [ok |-> TRUE, name |-> m[profileFilePath].content,
               error |-> "none"]

\* the name, or the error readProfileName throws
readProfileName(m, profileFilePath) ==
    IF ~markerExists(m, profileFilePath)
    THEN [ok |-> FALSE, name |-> <<>>, error |-> "NotFound"]
    ELSE IF ~m[profileFilePath].readable
    THEN [ok |-> FALSE, name |-> <<>>, error |-> "ReadError"]
    ELSE LET profileName == trim(m[profileFilePath].content) IN
         IF profileName = <<>>
         THEN [ok |-> FALSE, name |-> <<>>, error |-> "Empty"]
         ELSE IF ~NamePattern(profileName)
         THEN [ok |-> FALSE, name |-> <<>>, error |-> "InvalidName"]
         ELSE [ok |-> TRUE, name |-> profileName, error |-> "none"]

\* createProfileFile without the test for an existing marker
createProfileFile_Overwrite(m, directory, profileName) ==
    LET profilePath == join(directory, PROFILE_FILE_NAME) IN
    IF ~NamePattern(profileName)
    THEN [ok |-> FALSE, error |-> "InvalidName", mfs |-> m]
    ELSE [ok |-> TRUE, error |-> "none",
          mfs |-> [q \in DOMAIN m \cup {profilePath} |->
                      IF q = profilePath
                      THEN [content |-> profileName \o <<"\n">>,
                            readable |-> TRUE]
                      ELSE m[q]]]

\* the marker layout createProfileFile leaves, or the error it throws
createProfileFile(m, directory, profileName) ==
    LET profilePath == join(directory, PROFILE_FILE_NAME) IN
    IF markerExists(m, profilePath)
    THEN [ok |-> FALSE, error |-> "Exists", mfs |-> m]
    ELSE IF ~NamePattern(profileName)
    THEN [ok |-> FALSE, error |-> "InvalidName", mfs |-> m]
    ELSE [ok |-> TRUE, error |-> "none",
          mfs |-> [q \in DOMAIN m \cup {profilePath} |->
                      IF q = profilePath
                      THEN [content |-> profileName \o <<"\n">>,
                            readable |-> TRUE]
                      ELSE m[q]]]

Active(name, isNull, warned, raised, checked) ==
    [name |-> name, isNull |-> isNull, warned |-> warned,
     raised |-> raised, checked |-> checked]

\* getActiveProfile without its try/catch around readProfileName
getActiveProfile_NoCatch(m, startDir) ==
    LET f == findProfileFile(m, startDir) IN
    IF ~f.found THEN Active(<<>>, TRUE, FALSE, FALSE, f.checked)
    ELSE LET r == readProfileName(m, f.path) IN
         IF r.ok THEN Active(r.name, FALSE, FALSE, FALSE, f.checked)
         ELSE Active(<<>>, FALSE, FALSE, TRUE, f.checked)

getActiveProfile(m, startDir) ==
    LET f == findProfileFile(m, startDir) IN
    IF ~f.found THEN Active(<<>>, TRUE, FALSE, FALSE, f.checked)
    ELSE LET r == readProfileName(m, f.path) IN
         IF r.ok THEN Active(r.name, FALSE, FALSE, FALSE, f.checked)
         ELSE Active(<<>>, TRUE, TRUE, FALSE, f.checked)

-----------------------------------------------------------------------------
(* The directory resolver as a state machine *)

DirNames == <<"a", "b", "c", "d">>

\* the directory of depth n on the chain /a/b/...
ChainDir(n) == AbsPath([i \in 1..n |-> <<DirNames[i]>>])

Dirs == {ChainDir(n) : n \in 0..MaxDepth}

StartDirs == Dirs \cup {ChainDir(MaxDepth) \o <<"/">>,
                         ChainDir(MaxDepth) \o <<"/", ".", ".">>}

Marker(c) == [content |-> c, readable |-> TRUE]
Unreadable == [content |-> <<>>, readable |-> FALSE]

MarkerFiles ==
    {Marker(<<"w", "\n">>), Marker(<<"p">>), Marker(<<>>),
     Marker(<<" ", "\n">>), Marker(<<"w", "!">>), Marker(<<"w", " ", "p">>),
     Unreadable}

\* every way of placing marker files in the directories
MarkerLayouts ==
    UNION {[{join(d, PROFILE_FILE_NAME) : d \in ds} -> MarkerFiles] :
              ds \in SUBSET Dirs}

NoScan == [op |-> "none"]

InitScan ==
    /\ mfs \in MarkerLayouts
    /\ scan = NoScan
    /\ fs = <<>>
    /\ backups = <<>>
    /\ now = 0
    /\ dotfiles = <<>>
    /\ trail = <<>>
    /\ StoreIdle
    /\ EnvIdle
    /\ HookIdle

FindProfileFile(d) ==
    /\ scan' = [op |-> "find", startDir |-> d, r |-> findProfileFile(mfs, d)]
    /\ UNCHANGED <<mfs, dfVars, storeVars, envVars, hk>>

GetActiveProfile(d) ==
    /\ scan' = [op |-> "active", startDir |-> d,
                r |-> getActiveProfile(mfs, d)]
    /\ UNCHANGED <<mfs, dfVars, storeVars, envVars, hk>>

NextScan ==
    \/ \E d \in StartDirs : FindProfileFile(d)
    \/ \E d \in StartDirs : GetActiveProfile(d)

SpecScan == InitScan /\ [][NextScan]_vars

-----------------------------------------------------------------------------
(* Reading and creating markers *)

MarkerChars == {"w", "-", "\n", "!"}

\* every content of at most MaxLen characters
MarkerContents == UNION {[1..n -> MarkerChars] : n \in 0..MaxLen}

\* one marker of any content in the deepest directory, or markers naming
\* profile p in any directories
MarkerInits ==
    [{join(ChainDir(MaxDepth), PROFILE_FILE_NAME)} ->
        {Marker(c) : c \in MarkerContents} \cup {Unreadable}]
    \cup UNION {[{join(d, PROFILE_FILE_NAME) : d \in ds} -> {Marker(<<"p">>)}] :
                  ds \in SUBSET Dirs}

\* the names createProfileFile is called with: a valid one, two with a
\* character outside the pattern, the empty one
MarkerNames == {<<"w">>, <<"w", "!">>, <<"w", "\n">>, <<>>}

InitMarker ==
    /\ mfs \in MarkerInits
    /\ scan = NoScan
    /\ fs = <<>>
    /\ backups = <<>>
    /\ now = 0
    /\ dotfiles = <<>>
    /\ trail = <<>>
    /\ StoreIdle
    /\ EnvIdle
    /\ HookIdle

ReadProfileName(d) ==
    /\ scan' = [op |-> "read", path |-> join(d, PROFILE_FILE_NAME),
                r |-> readProfileName(mfs, join(d, PROFILE_FILE_NAME))]
    /\ UNCHANGED <<mfs, dfVars, storeVars, envVars, hk>>

CreateProfileFile(d, name) ==
    /\ \E r \in {createProfileFile(mfs, d, name)} :
       /\ mfs' = r.mfs
       /\ scan' = [op |-> "create", dir |-> d, name |-> name, r |-> r,
                   pre |-> mfs]
    /\ UNCHANGED <<dfVars, storeVars, envVars, hk>>

NextMarker ==
    \/ \E d \in Dirs : ReadProfileName(d)
    \/ \E d \in Dirs, name \in MarkerNames : CreateProfileFile(d, name)

SpecMarker == InitMarker /\ [][NextMarker]_vars

-----------------------------------------------------------------------------
(* The dotfile engine as a state machine *)

\* what is on disk before kontext runs, apart from the target ~/v
BaseFs ==
    [q \in {<<"/", "p">>, <<"/", "p", "/", "a">>, <<"/", "h">>, <<"/", "s">>,
            <<"/", "p", "2">>, <<"/", "p", "2", "/", "a">>} |->
        CASE q = <<"/", "p", "/", "a">> -> File("vimrc of the profile")
          [] q = <<"/", "s">> -> File("secret")
          [] q = <<"/", "p", "2", "/", "a">> -> File("sibling")
          [] OTHER -> Dir]

HomeTarget == <<"/", "h", "/", "v">>

\* what the user may have at ~/v beforehand
TargetNodes ==
    {File("original"), Dir, Link(<<"/", "s">>),
     Link(<<"/", "h", "/", "g", "o", "n", "e">>)}

InitialFs == {BaseFs} \cup {Put(BaseFs, HomeTarget, n) : n \in TargetNodes}

Entry(t, s) == [target |-> t, source |-> s]

\* the entries a mapping is made of: targets written absolutely and with ~/,
\* one below a directory that does not exist yet; sources that exist in the
\* profile directory, are missing from it, or lie outside it
Entries ==
    {Entry(<<"~", "/", "v">>, <<PH, "/", "a">>),
     Entry(<<"/", "h", "/", "v">>, <<PH, "/", "a">>),
     Entry(<<"/", "h", "/", "n", "/", "w">>, <<PH, "/", "a">>),
     Entry(<<"~", "/", "v">>, <<PH, "/", "m">>),
     Entry(<<"/", "h", "/", "n", "/", "w">>, <<PH, "/", "m">>),
     Entry(<<"~", "/", "v">>, <<PH, "/", ".", ".", "/", "s">>),
     Entry(<<"/", "h", "/", "n", "/", "w">>,
           <<PH, "/", ".", ".", "/", ".", ".", "/", "s">>),
     Entry(<<"/", "h", "/", "v">>, <<"/", "p", "2", "/", "a">>),
     Entry(<<"/", "h", "/", "n", "/", "w">>, <<"/", "s">>)}

\* Record<string, string>: the keys of a mapping are distinct strings
Mappings ==
    {m \in UNION {[1..n -> Entries] : n \in 1..MaxEntries} :
        \A i, j \in 1..Len(m) : i /= j => m[i].target /= m[j].target}

InitDot ==
    /\ fs \in InitialFs
    /\ backups = <<>>
    /\ now = 0
    /\ dotfiles \in Mappings
    /\ trail = <<>>
    /\ mfs = <<>>
    /\ scan = NoScan
    /\ StoreIdle
    /\ EnvIdle
    /\ HookIdle

Logged(op, r) ==
    Append(trail, [op |-> op, err |-> r.err, failedAt |-> r.failedAt,
                   made |-> r.made, pre |-> fs, post |-> r.fs,
                   bkPost |-> r.backups])

ApplyDotfiles ==
    /\ Len(trail) < MaxOps
    /\ \E r \in {applyDotfiles(fs, backups, profileDir, dotfiles, now)} :
       /\ fs' = r.fs
       /\ backups' = r.backups
       /\ trail' = Logged("apply", r)
    /\ UNCHANGED <<now, dotfiles>>
    /\ UNCHANGED <<scanVars, storeVars, envVars, hk>>

RemoveDotfiles ==
    /\ Len(trail) < MaxOps
    /\ \E r \in {removeDotfiles(fs, backups, dotfiles)} :
       /\ fs' = r.fs
       /\ backups' = r.backups
       /\ trail' = Logged("remove", r)
    /\ UNCHANGED <<now, dotfiles>>
    /\ UNCHANGED <<scanVars, storeVars, envVars, hk>>

\* the CLI invocation ends: the static map dies with the process
ProcessExit ==
    /\ Len(trail) < MaxOps
    /\ backups' = <<>>
    /\ trail' = Logged("exit", [err |-> "none", failedAt |-> 0, made |-> {},
                                fs |-> fs, backups |-> <<>>])
    /\ UNCHANGED <<fs, now, dotfiles>>
    /\ UNCHANGED <<scanVars, storeVars, envVars, hk>>

Tick ==
    /\ now < MaxNow
    /\ now' = now + 1
    /\ UNCHANGED <<fs, backups, dotfiles, trail>>
    /\ UNCHANGED <<scanVars, storeVars, envVars, hk>>

NextDot ==
    \/ ApplyDotfiles
    \/ RemoveDotfiles
    \/ ProcessExit
    \/ Tick

SpecDot == InitDot /\ [][NextDot]_vars

-----------------------------------------------------------------------------
(* JavaScript values: what a manifest holds and what js-yaml yields *)

Undef == [t |-> "undefined"]
Null == [t |-> "null"]
Str(s) == [t |-> "string", s |-> s]
Num(n) == [t |-> "number", n |-> n]
Obj(f) == [t |-> "object", f |-> f]

\* v.k: undefined for a key that is absent and for a value with no properties
Get(v, k) == IF v.t = "object" /\ k \in DOMAIN v.f THEN v.f[k] ELSE Undef

\* !!v
Truthy(v) ==
    CASE v.t \in {"undefined", "null"} -> FALSE
      [] v.t = "string" -> v.s /= <<>>
      [] v.t = "number" -> v.n /= 0
      [] OTHER -> TRUE

\* what a YAML document keeps of a value: a key whose value is undefined
\* is not written
RECURSIVE StripUndef(_)
StripUndef(v) ==
    IF v.t = "object"
    THEN Obj([k \in {j \in DOMAIN v.f : v.f[j] /= Undef} |->
                 StripUndef(v.f[k])])
    ELSE v

Yaml(doc) == [text |-> "yaml", doc |-> doc]
Malformed == [text |-> "malformed"]

\* yaml.dump(config, ...)
dump(config) == Yaml(StripUndef(config))

-----------------------------------------------------------------------------
(* ProfileManager *)

profilesPath == <<"/", "r">>
MANIFEST_NAME == <<"profile.yml">>

getProfileDirectoryPath(profileName) == join(profilesPath, profileName)

getProfileManifestPath(profileName) ==
    join(getProfileDirectoryPath(profileName), MANIFEST_NAME)

existsSync(d, p) == LExists(d, p)

\* fs.promises.writeFile(p, data)
writeFile(d, p, data) ==
    IF KPath(d, p) = NoPath \/ (LExists(d, p) /\ Node(d, p).kind = "dir")
    THEN Err(d)
    ELSE Ok(Put(d, KPath(d, p), File(data)))

\* fs.promises.rm(p, { recursive: true, force: true })
rm(d, p) == [q \in DOMAIN d \ Subtree(d, p) |-> d[q]]

\* TRUE when validateProfileConfig returns, FALSE when it throws
validateProfileConfig(config) ==
    /\ Truthy(config) /\ config.t = "object"
    /\ Truthy(Get(config, "name")) /\ Get(config, "name").t = "string"

convertConfigToProfile(config) ==
    LET git == Get(config, "git")
        environment == Get(config, "environment")
        hooks == Get(config, "hooks")
    IN  Obj([name |-> Get(config, "name"),
             git |-> IF Truthy(git)
                     THEN Obj([configPath |-> Get(git, "config_path")])
                     ELSE Undef,
             environment |->
                 IF Truthy(environment)
                 THEN Obj([variables |-> Get(environment, "variables"),
                           scriptPath |-> Get(environment, "script_path")])
                 ELSE Undef,
             dotfiles |-> Get(config, "dotfiles"),
             hooks |-> IF Truthy(hooks)
                       THEN Obj([onActivate |-> Get(hooks, "on_activate"),
                                 onDeactivate |-> Get(hooks, "on_deactivate")])
                       ELSE Undef])

convertProfileToConfig(profile) ==
    LET git == Get(profile, "git")
        environment == Get(profile, "environment")
        hooks == Get(profile, "hooks")
    IN  Obj([name |-> Get(profile, "name"),
             git |-> IF Truthy(git)
                     THEN Obj([config_path |-> Get(git, "configPath")])
                     ELSE Undef,
             environment |->
                 IF Truthy(environment)
                 THEN Obj([variables |-> Get(environment, "variables"),
                           script_path |-> Get(environment, "scriptPath")])
                 ELSE Undef,
             dotfiles |-> Get(profile, "dotfiles"),
             hooks |-> IF Truthy(hooks)
                       THEN Obj([on_activate |-> Get(hooks, "onActivate"),
                                 on_deactivate |-> Get(hooks, "onDeactivate")])
                       ELSE Undef])

Outcome(res, ret, d) == [res |-> res, ret |-> ret, disk |-> d]

createProfile(d, profile) ==
    LET profileDirectory == getProfileDirectoryPath(Get(profile, "name").s)
        manifestPath == getProfileManifestPath(Get(profile, "name").s)
    IN  IF existsSync(d, profileDirectory)
        THEN Outcome("AlreadyExists", Undef, d)
        ELSE The({IF ~m.ok THEN Outcome("IOError", Undef, m.fs)
                  ELSE The({IF ~w.ok THEN Outcome("IOError", Undef, w.fs)
                            ELSE Outcome("ok", Undef, w.fs) :
                            w \in {writeFile(m.fs, manifestPath,
                                       dump(convertProfileToConfig(profile)))}}) :
                  m \in {mkdir(d, profileDirectory)}})

getProfile(d, profileName) ==
    LET manifestPath == getProfileManifestPath(profileName) IN
    IF ~existsSync(d, manifestPath) THEN Outcome("null", Null, d)
    ELSE LET node == Node(d, manifestPath) IN
         IF node.kind /= "file" \/ node.data = Malformed
         THEN Outcome("LoadError", Undef, d)
         ELSE IF ~validateProfileConfig(node.data.doc)
         THEN Outcome("LoadError", Undef, d)
         ELSE Outcome("ok", convertConfigToProfile(node.data.doc), d)

updateProfile(d, profile) ==
    LET manifestPath == getProfileManifestPath(Get(profile, "name").s) IN
    IF ~existsSync(d, manifestPath) THEN Outcome("NotFound", Undef, d)
    ELSE The({IF ~w.ok THEN Outcome("IOError", Undef, w.fs)
              ELSE Outcome("ok", Undef, w.fs) :
              w \in {writeFile(d, manifestPath,
                               dump(convertProfileToConfig(profile)))}})

\* deleteProfile removing the manifest and leaving the directory
deleteProfile_ManifestOnly(d, profileName) ==
    LET profileDirectory == getProfileDirectoryPath(profileName) IN
    IF ~existsSync(d, profileDirectory) THEN Outcome("NotFound", Undef, d)
    ELSE Outcome("ok", Undef, rm(d, getProfileManifestPath(profileName)))

deleteProfile(d, profileName) ==
    LET profileDirectory == getProfileDirectoryPath(profileName) IN
    IF ~existsSync(d, profileDirectory) THEN Outcome("NotFound", Undef, d)
    ELSE Outcome("ok", Undef, rm(d, profileDirectory))

\* fs.promises.readdir(p, { withFileTypes: true }): the entries of p, by name
readdir(d, p) ==
    {[name |-> SubSeq(q, Len(p) + 2, Len(q)), isDirectory |-> d[q].kind = "dir"] :
        q \in {q \in DOMAIN d :
                  /\ startsWith(q, p \o <<"/">>)
                  /\ Len(q) > Len(p) + 1
                  /\ \A i \in (Len(p) + 2)..Len(q) : q[i] /= "/"}}

\* the names pushed to profiles; readdir fixes no order
listProfiles(d) ==
    IF ~existsSync(d, profilesPath) THEN Outcome("ok", {}, d)
    ELSE Outcome("ok",
                 {item.name : item \in
                     {i \in readdir(d, profilesPath) :
                         /\ i.isDirectory
                         /\ existsSync(d, getProfileManifestPath(i.name))}},
                 d)

profileExists(d, profileName) ==
    existsSync(d, getProfileManifestPath(profileName))

-----------------------------------------------------------------------------
(* The delete command (kontext delete, kontext profile delete) *)

Exit(outcome, steps, d) == [res |-> outcome, steps |-> steps, disk |-> d]

\* deleteCommand without the test for the active profile
deleteCommand_NoGuard(d, m, dir, profileName, confirmed) ==
    IF ~profileExists(d, profileName)
    THEN Exit("NotExist", <<"profileExists">>, d)
    ELSE IF ~confirmed
    THEN Exit("Cancelled", <<"profileExists", "confirmDeletion">>, d)
    ELSE The({Exit(IF r.res = "ok" THEN "Deleted" ELSE "Failed",
                   <<"profileExists", "confirmDeletion", "deleteProfile">>,
                   r.disk) :
              r \in {deleteProfile(d, profileName)}})

deleteCommand(d, m, dir, profileName, confirmed) ==
    IF ~profileExists(d, profileName)
    THEN Exit("NotExist", <<"profileExists">>, d)
    ELSE LET currentProfile == getActiveProfile(m, dir) IN
         IF ~currentProfile.isNull /\ currentProfile.name = profileName
         THEN Exit("ActiveProfile", <<"profileExists", "getActiveProfile">>, d)
         ELSE IF ~confirmed
         THEN Exit("Cancelled",
                   <<"profileExists", "getActiveProfile", "confirmDeletion">>,
                   d)
         ELSE The({Exit(IF r.res = "ok" THEN "Deleted" ELSE "Failed",
                        <<"profileExists", "getActiveProfile",
                          "confirmDeletion", "deleteProfile">>,
                        r.disk) :
                   r \in {deleteProfile(d, profileName)}})

-----------------------------------------------------------------------------
(* The profile store as a state machine *)

ProfileNames == {<<"w">>, <<"p">>}

\* the names the store's methods are called with: createProfile, updateProfile
\* and deleteProfile take any string
AnyNames == ProfileNames \cup {<<".">>, <<".", ".", "/", "x">>}

Profile(name, git, environment, dotfilesMap, hooks) ==
    Obj([name |-> Str(name), git |-> git, environment |-> environment,
         dotfiles |-> dotfilesMap, hooks |-> hooks])

GitValues == {Undef, Obj([configPath |-> Str(<<"g">>)])}

Variables == Obj([API_URL |-> Str(<<"b">>)])

Environment(variables, envFile, scriptPath) ==
    Obj([variables |-> variables, envFile |-> envFile,
         scriptPath |-> scriptPath])

EnvironmentValues ==
    {Undef,
     Environment(Variables, Undef, Undef),
     Environment(Undef, Str(<<"e">>), Undef),
     Environment(Undef, Undef, Str(<<"s">>)),
     Environment(Variables, Str(<<"e">>), Str(<<"s">>))}

DotfilesValues == {Undef, Obj([vimrc |-> Str(<<"a">>)])}

HooksValues ==
    {Undef, Obj([onActivate |-> Str(<<"h">>), onDeactivate |-> Undef])}

\* the profiles handed to createProfile and updateProfile, named w
Profiles ==
    {Profile(<<"w">>, g, e, df, h) :
        g \in GitValues, e \in EnvironmentValues,
        df \in DotfilesValues, h \in HooksValues}

Named(profile, name) ==
    Obj([k \in DOMAIN profile.f |->
            IF k = "name" THEN Str(name) ELSE profile.f[k]])

MinimalProfile == Profile(<<"w">>, Undef, Undef, Undef, Undef)

EmptyStore == [q \in {profilesPath} |-> Dir]

\* what a profile.yml written or edited by hand may hold
HandWritten ==
    {Malformed,
     Yaml(Undef),
     Yaml(Str(<<"p">>)),
     Yaml(Obj([git |-> Obj([config_path |-> Str(<<"g">>)])])),
     Yaml(Obj([name |-> Num(42)])),
     Yaml(Obj([name |-> Str(<<"p">>)])),
     Yaml(Obj([name |-> Str(<<"p">>), environment |-> Str(<<"e">>)])),
     Yaml(Obj([name |-> Str(<<"p">>), dotfiles |-> Num(5)])),
     Yaml(Obj([name |-> Str(<<"p">>),
               environment |-> Obj([variables |-> Variables,
                                    env_file |-> Str(<<"e">>)])]))}

DirOnly == Put(EmptyStore, getProfileDirectoryPath(<<"p">>), Dir)

WithManifest(content) ==
    Put(DirOnly, getProfileManifestPath(<<"p">>), File(content))

HandMadeStores == {EmptyStore, DirOnly} \cup {WithManifest(c) : c \in HandWritten}

\* the markers around the working directory /a/b
StoreMarkerLayouts ==
    {<<>>,
     [q \in {join(ChainDir(1), PROFILE_FILE_NAME)} |-> Marker(<<"p", "\n">>)],
     [q \in {join(ChainDir(1), PROFILE_FILE_NAME)} |-> Marker(<<"w", "\n">>)],
     [q \in {join(ChainDir(1), PROFILE_FILE_NAME),
             join(ChainDir(2), PROFILE_FILE_NAME)} |->
         IF q = join(ChainDir(1), PROFILE_FILE_NAME)
         THEN Marker(<<"p">>) ELSE Marker(<<"w", "!">>)]}

NoOp == [op |-> "none"]

\* the names tried in a behaviour: every one of AnyNames with the minimal
\* profile, the profile names with the richer profiles
ApiNames == IF input = MinimalProfile THEN AnyNames ELSE ProfileNames

InitStore ==
    /\ cwd = ChainDir(2)
    /\ \/ /\ input \in Profiles \ {MinimalProfile}
          /\ disk \in {EmptyStore,
                       WithManifest(Yaml(Obj([name |-> Str(<<"p">>)])))}
          /\ mfs = <<>>
       \/ /\ input = MinimalProfile
          /\ disk \in HandMadeStores
          /\ mfs \in StoreMarkerLayouts
    /\ last = NoOp
    /\ orig = <<>>
    /\ hist = [clean |-> disk = EmptyStore, live |-> {}]
    /\ EnvIdle
    /\ HookIdle
    /\ scan = NoScan
    /\ fs = <<>>
    /\ backups = <<>>
    /\ now = 0
    /\ dotfiles = <<>>
    /\ trail = <<>>

Did(op, name, r) ==
    [op |-> op, name |-> name, res |-> r.res, ret |-> r.ret, pre |-> disk,
     live |-> hist.live]

\* what orig keeps after a successful write or removal for name: a name that
\* is no profile name may have reached the other profiles
Forget(name) ==
    IF name \in ProfileNames THEN [n \in DOMAIN orig \ {name} |-> orig[n]]
    ELSE <<>>

\* the history after a call for name that has made names live or dead
Then(name, born, dead) ==
    [clean |-> hist.clean /\ name \in ProfileNames,
     live |-> ((hist.live \cup born) \ dead) \cap ProfileNames]

CreateProfile(name) ==
    /\ \E r \in {createProfile(disk, Named(input, name))} :
          /\ disk' = r.disk
          /\ last' = Did("createProfile", name, r)
          /\ orig' = IF r.res /= "ok" THEN orig
                     ELSE IF name \notin ProfileNames THEN Forget(name)
                     ELSE [n \in DOMAIN orig \cup {name} |->
                              IF n = name THEN Named(input, name)
                              ELSE orig[n]]
          /\ hist' = Then(name, IF r.res = "ok" THEN {name} ELSE {}, {})
    /\ UNCHANGED <<input, cwd, dfVars, scanVars, envVars, hk>>

GetProfile(name) ==
    /\ \E r \in {getProfile(disk, name)} :
          last' = Did("getProfile", name, r)
    /\ UNCHANGED <<disk, orig, hist, input, cwd, dfVars, scanVars, envVars, hk>>

UpdateProfile(name) ==
    /\ \E r \in {updateProfile(disk, Named(MinimalProfile, name))} :
          /\ disk' = r.disk
          /\ last' = Did("updateProfile", name, r)
          /\ orig' = IF r.res = "ok" THEN Forget(name) ELSE orig
          /\ hist' = Then(name, {}, {})
    /\ UNCHANGED <<input, cwd, dfVars, scanVars, envVars, hk>>

DeleteProfile(name) ==
    /\ \E r \in {deleteProfile(disk, name)} :
          /\ disk' = r.disk
          /\ last' = Did("deleteProfile", name, r)
          /\ orig' = IF r.res = "ok" THEN Forget(name) ELSE orig
          /\ hist' = Then(name, {}, IF r.res = "ok" THEN {name} ELSE {})
    /\ UNCHANGED <<input, cwd, dfVars, scanVars, envVars, hk>>

ListProfiles ==
    /\ \E r \in {listProfiles(disk)} :
          last' = Did("listProfiles", <<>>, r)
    /\ UNCHANGED <<disk, orig, hist, input, cwd, dfVars, scanVars, envVars, hk>>

DeleteCommand(name, confirmed) ==
    /\ \E r \in {deleteCommand(disk, mfs, cwd, name, confirmed)} :
          /\ disk' = r.disk
          /\ last' = [op |-> "deleteCommand", name |-> name, res |-> r.res,
                      ret |-> Undef, pre |-> disk, steps |-> r.steps,
                      live |-> hist.live]
          /\ orig' = IF r.res = "Deleted" THEN Forget(name) ELSE orig
          /\ hist' = Then(name, {},
                          IF r.res = "Deleted" THEN {name} ELSE {})
    /\ UNCHANGED <<input, cwd, dfVars, scanVars, envVars, hk>>

NextStore ==
    \/ \E name \in ApiNames : CreateProfile(name)
    \/ \E name \in ProfileNames : GetProfile(name)
    \/ \E name \in ApiNames : UpdateProfile(name)
    \/ \E name \in ApiNames : DeleteProfile(name)
    \/ ListProfiles
    \/ \E name \in ProfileNames, confirmed \in BOOLEAN :
           DeleteCommand(name, confirmed)

SpecStore == InitStore /\ [][NextStore]_vars

-----------------------------------------------------------------------------
(* Shell text: what the generated commands are made of *)

\* the names used as environment variables, spelled out
KeyChars ==
    ("API_URL" :> <<"A", "P", "I", "_", "U", "R", "L">>) @@
    ("E" :> <<"E">>) @@
    ("K" :> <<"K">>) @@
    ("A-B" :> <<"A", "-", "B">>) @@
    ("KONTEXT_PROFILE_DIR" :>
        <<"K", "O", "N", "T", "E", "X", "T", "_", "P", "R", "O", "F", "I",
          "L", "E", "_", "D", "I", "R">>) @@
    ("KONTEXT_CURRENT_PROFILE" :>
        <<"K", "O", "N", "T", "E", "X", "T", "_", "C", "U", "R", "R", "E",
          "N", "T", "_", "P", "R", "O", "F", "I", "L", "E">>) @@
    ("KONTEXT_PROFILE" :>
        <<"K", "O", "N", "T", "E", "X", "T", "_", "P", "R", "O", "F", "I",
          "L", "E">>) @@
    ("KONTEXT_HOOK_TYPE" :>
        <<"K", "O", "N", "T", "E", "X", "T", "_", "H", "O", "O", "K", "_",
          "T", "Y", "P", "E">>)

Letters ==
    {"A", "B", "C", "D", "E", "F", "G", "H", "I", "J", "K", "L", "M", "N",
     "O", "P", "Q", "R", "S", "T", "U", "V", "W", "X", "Y", "Z",
     "a", "b", "c", "d", "e", "f", "g", "h", "i", "j", "k", "l", "m", "n",
     "o", "p", "q", "r", "s", "t", "u", "v", "w", "x", "y", "z"}

\* /^[a-zA-Z_][a-zA-Z0-9_]*$/.test(key)
validNameRegex(key) ==
    LET c == KeyChars[key] IN
    /\ c /= <<>>
    /\ c[1] \in Letters \cup {"_"}
    /\ \A i \in 2..Len(c) :
           c[i] \in Letters \cup {"_"} \cup {Digits[j] : j \in 1..10}

\* the backquote character
Backquote == "backquote"

ShellSpecial == {"\"", "\\", "$", Backquote}

\* value.replace(/["\\$backquote]/g, '\\$&')
RECURSIVE escapeShellValue(_)
escapeShellValue(value) ==
    IF value = <<>> THEN <<>>
    ELSE (IF Head(value) \in ShellSpecial THEN <<"\\", Head(value)>>
          ELSE <<Head(value)>>) \o escapeShellValue(Tail(value))

\* the commands of a generated script, by what the shell does with them;
\* comment lines and empty lines are left out
Export(name, text) == [k |-> "export", name |-> name, text |-> text]
Unset(name) == [k |-> "unset", name |-> name]
\* if [ -f path ]; then export KONTEXT_PROFILE, KONTEXT_HOOK_TYPE; bash path
\*   || echo Warning; else echo Warning; fi
HookBlock(path, profileName, hookType) ==
    [k |-> "hook", path |-> path, name |-> profileName, type |-> hookType]
\* if [ -f path ]; then while IFS='=' read -r key value; ... export; done
LoadEnvFile(path) == [k |-> "loadenv", path |-> path]
\* if [ -f path ]; then while ... unset "$key"; done; fi
UnsetEnvFile(path) == [k |-> "unsetenv", path |-> path]
\* source "path", inside if [ -f path ] when guarded
SourceScript(path, guarded) ==
    [k |-> "source", path |-> path, guarded |-> guarded]

-----------------------------------------------------------------------------
(* EnvironmentManager *)

\* Object.entries(v) of a variables map: the keys in their order, with values
KeyOrder == <<"API_URL", "K", "E", "A-B">>

RECURSIVE EntriesFrom(_, _)
EntriesFrom(v, i) ==
    IF i > Len(KeyOrder) THEN <<>>
    ELSE (IF KeyOrder[i] \in DOMAIN v.f
          THEN <<[key |-> KeyOrder[i], value |-> v.f[KeyOrder[i]]]>>
          ELSE <<>>) \o EntriesFrom(v, i + 1)

entries(v) == IF v.t = "object" THEN EntriesFrom(v, 1) ELSE <<>>

\* the keys of a dotfiles map, spelled out
TargetChars == ("~/v" :> <<"~", "/", "v">>)

\* the dotfiles map as the entries ConfigFileManager walks through
dotfileEntries(v) ==
    IF "~/v" \in DOMAIN v.f
    THEN <<[target |-> TargetChars["~/v"], source |-> v.f["~/v"].s]>>
    ELSE <<>>

includes(s, token) == \E i \in 1..Len(s) : s[i] = token

resolveScriptPath(scriptPath, pd) ==
    IF pd /= <<>> /\ includes(scriptPath, PH)
    THEN resolveProfilePath(pd, scriptPath)
    ELSE IF startsWith(scriptPath, <<"~", "/">>)
    THEN join(homedir, SubSeq(scriptPath, 3, Len(scriptPath)))
    ELSE IF startsWith(scriptPath, <<"/">>) THEN scriptPath
    ELSE IF pd /= <<>> THEN join(pd, scriptPath)
    ELSE join(<<"/">>, scriptPath)

\* the content of an env file, of a shell script
EnvData(lines) == [text |-> "env", lines |-> lines]
ScriptData(cmds) == [text |-> "sh", cmds |-> cmds]

indexOf(s, token) ==
    IF includes(s, token)
    THEN CHOOSE i \in 1..Len(s) :
             s[i] = token /\ \A j \in 1..(i - 1) : s[j] /= token
    ELSE 0

\* variables[key] = value
setEntry(es, key, value) ==
    IF \E i \in 1..Len(es) : es[i].key = key
    THEN [i \in 1..Len(es) |->
             IF es[i].key = key THEN [key |-> key, value |-> value]
             ELSE es[i]]
    ELSE Append(es, [key |-> key, value |-> value])

\* lines 376-380: a value in double or in single quotes loses them
unquoted(value) ==
    IF /\ value /= <<>>
       /\ \/ Head(value) = "\"" /\ value[Len(value)] = "\""
          \/ Head(value) = "'" /\ value[Len(value)] = "'"
    THEN SubSeq(value, 2, Len(value) - 1)
    ELSE value

\* lines 359-385, one line; the key of a line is one token
parseLine(variables, line) ==
    LET trimmedLine == trim(line)
        equalIndex == indexOf(trimmedLine, "=")
        key == trim(SubSeq(trimmedLine, 1, equalIndex - 1))
        value == unquoted(trim(SubSeq(trimmedLine, equalIndex + 1,
                                      Len(trimmedLine))))
    IN  IF trimmedLine = <<>> \/ Head(trimmedLine) = "#" THEN variables
        ELSE IF equalIndex = 0 THEN variables
        ELSE IF key = <<>> THEN variables
        ELSE setEntry(variables, key[1], value)

RECURSIVE parseLines(_, _)
parseLines(variables, lines) ==
    IF lines = <<>> THEN variables
    ELSE parseLines(parseLine(variables, Head(lines)), Tail(lines))

\* the entries parseEnvFile returns for a readable env file
parseEnvFile(f, filePath) == parseLines(<<>>, Node(f, filePath).data.lines)

\* line 37 and line 48: export ${key}="${value}"
RECURSIVE rawExports(_)
rawExports(es) ==
    IF es = <<>> THEN <<>>
    ELSE <<Export(Head(es).key, Head(es).value)>> \o rawExports(Tail(es))

\* line 173: export ${key}="${this.escapeShellValue(value)}"
RECURSIVE escapedExports(_)
escapedExports(es) ==
    IF es = <<>> THEN <<>>
    ELSE <<Export(Head(es).key, escapeShellValue(Head(es).value))>>
         \o escapedExports(Tail(es))

RECURSIVE unsets(_)
unsets(es) ==
    IF es = <<>> THEN <<>>
    ELSE <<Unset(Head(es).key)>> \o unsets(Tail(es))

\* the entries of a variables map, each value as its string
stringEntries(v) ==
    LET es == entries(v) IN
    [i \in 1..Len(es) |-> [key |-> es[i].key, value |-> es[i].value.s]]

keysOf(es) == [i \in 1..Len(es) |-> es[i].key]

When(cond, cmds) == IF cond THEN cmds ELSE <<>>

\* generateActivationScript with the hook block after the variables
generateActivationScript_HookAfterVariables(profile, pd) ==
    LET name == Get(profile, "name").s
        onActivate == Get(Get(profile, "hooks"), "onActivate")
        envFile == Get(Get(profile, "environment"), "envFile")
        variables == Get(Get(profile, "environment"), "variables")
        scriptPath == Get(Get(profile, "environment"), "scriptPath")
    IN  <<Export("KONTEXT_PROFILE_DIR", pd)>>
        \o When(Truthy(envFile),
                <<LoadEnvFile(resolveProfilePath(pd, envFile.s))>>)
        \o When(Truthy(variables), escapedExports(stringEntries(variables)))
        \o When(Truthy(onActivate),
                <<HookBlock(resolveProfilePath(pd, onActivate.s), name,
                            "activate")>>)
        \o When(Truthy(scriptPath),
                <<SourceScript(resolveScriptPath(scriptPath.s, pd), TRUE)>>)
        \o <<Export("KONTEXT_CURRENT_PROFILE", name)>>

generateActivationScript(profile, pd) ==
    LET name == Get(profile, "name").s
        onActivate == Get(Get(profile, "hooks"), "onActivate")
        envFile == Get(Get(profile, "environment"), "envFile")
        variables == Get(Get(profile, "environment"), "variables")
        scriptPath == Get(Get(profile, "environment"), "scriptPath")
    IN  <<Export("KONTEXT_PROFILE_DIR", pd)>>
        \o When(Truthy(onActivate),
                <<HookBlock(resolveProfilePath(pd, onActivate.s), name,
                            "activate")>>)
        \o When(Truthy(envFile),
                <<LoadEnvFile(resolveProfilePath(pd, envFile.s))>>)
        \o When(Truthy(variables), escapedExports(stringEntries(variables)))
        \o When(Truthy(scriptPath),
                <<SourceScript(resolveScriptPath(scriptPath.s, pd), TRUE)>>)
        \o <<Export("KONTEXT_CURRENT_PROFILE", name)>>

\* generateDeactivationScript with the hook block first
generateDeactivationScript_HookFirst(profile, pd) ==
    LET onDeactivate == Get(Get(profile, "hooks"), "onDeactivate")
        envFile == Get(Get(profile, "environment"), "envFile")
        variables == Get(Get(profile, "environment"), "variables")
    IN  When(Truthy(onDeactivate) /\ pd /= <<>>,
             <<HookBlock(resolveProfilePath(pd, onDeactivate.s),
                         Get(profile, "name").s, "deactivate")>>)
        \o When(Truthy(envFile) /\ pd /= <<>>,
                <<UnsetEnvFile(resolveProfilePath(pd, envFile.s))>>)
        \o When(Truthy(variables), unsets(entries(variables)))
        \o <<Unset("KONTEXT_CURRENT_PROFILE"), Unset("KONTEXT_PROFILE_DIR")>>

\* profile may be undefined, and pd the empty string for no profileDir
generateDeactivationScript(profile, pd) ==
    LET onDeactivate == Get(Get(profile, "hooks"), "onDeactivate")
        envFile == Get(Get(profile, "environment"), "envFile")
        variables == Get(Get(profile, "environment"), "variables")
    IN  When(Truthy(envFile) /\ pd /= <<>>,
             <<UnsetEnvFile(resolveProfilePath(pd, envFile.s))>>)
        \o When(Truthy(variables), unsets(entries(variables)))
        \o <<Unset("KONTEXT_CURRENT_PROFILE"), Unset("KONTEXT_PROFILE_DIR")>>
        \o When(Truthy(onDeactivate) /\ pd /= <<>>,
                <<HookBlock(resolveProfilePath(pd, onDeactivate.s),
                            Get(profile, "name").s, "deactivate")>>)

\* what an EnvironmentManager call leaves: its commands or the error it
\* throws, the warnings printed, the filesystem and the backups map
Applied(raised, commands, warnings, f, b, stored) ==
    [raised |-> raised, commands |-> commands, warnings |-> warnings,
     fs |-> f, backups |-> b, envFileVariables |-> stored]

\* the exports of the explicit variables placed before those of the env file
envExports_VariablesFirst(envFileVars, explicit) ==
    rawExports(explicit) \o rawExports(envFileVars)

\* lines 36-52: the exports of the env file, then those of the variables
envExports(envFileVars, explicit) ==
    rawExports(envFileVars) \o rawExports(explicit)

\* lines 30-76, after the dotfile step and the git step
exportsOf(profile, pd, f, b, warnings) ==
    LET name == Get(profile, "name").s
        envFile == Get(Get(profile, "environment"), "envFile")
        variables == Get(Get(profile, "environment"), "variables")
        scriptPath == Get(Get(profile, "environment"), "scriptPath")
        envFilePath == resolveProfilePath(pd, envFile.s)
        hasEnvFile == Truthy(envFile) /\ fileExists(f, envFilePath)
        unreadable == hasEnvFile /\ Node(f, envFilePath).kind /= "file"
        envFileVars == IF hasEnvFile /\ ~unreadable
                       THEN parseEnvFile(f, envFilePath) ELSE <<>>
        explicit == IF Truthy(variables) THEN stringEntries(variables)
                    ELSE <<>>
        script == resolveScriptPath(scriptPath.s, pd)
        hasScript == Truthy(scriptPath) /\ fileExists(f, script)
        envVariables ==
            keysOf(envFileVars) \o
            SelectSeq(keysOf(explicit),
                      LAMBDA key : ~includes(keysOf(envFileVars), key))
    IN  IF unreadable
        THEN Applied("ParseError", <<>>, warnings, f, b, <<>>)
        ELSE Applied("none",
                     envExports(envFileVars, explicit)
                     \o When(hasScript, <<SourceScript(script, FALSE)>>)
                     \o <<Export("KONTEXT_CURRENT_PROFILE", name),
                          Export("KONTEXT_PROFILE_DIR", pd)>>,
                     warnings
                     \o When(Truthy(envFile) /\ ~hasEnvFile,
                             <<"Environment file not found">>)
                     \o When(Truthy(scriptPath) /\ ~hasScript,
                             <<"Script file not found">>),
                     f, b, envVariables)

\* ConfigFileManager.configureGit: a failing git is caught and warned about
configureGit(configPath, gitOk) ==
    IF configPath = <<>> \/ gitOk THEN <<>>
    ELSE <<"Failed to configure git">>

applyProfile(profile, pd, f, b, t, gitOk) ==
    LET configPath == Get(Get(profile, "git"), "configPath") IN
    The({IF r.err /= "none"
         THEN Applied(r.err, <<>>, <<>>, r.fs, r.backups, <<>>)
         ELSE exportsOf(profile, pd, r.fs, r.backups,
                        When(Truthy(configPath),
                             configureGit(resolveProfilePath(pd,
                                                             configPath.s),
                                          gitOk))) :
         r \in {IF Truthy(Get(profile, "dotfiles"))
                THEN applyDotfiles(f, b, pd,
                                   dotfileEntries(Get(profile, "dotfiles")),
                                   t)
                ELSE Eng(f, b, "none", {})}})

\* the validation the creation wizard runs on a variables map; TRUE when it
\* returns, FALSE when it throws
validateEnvironmentVariables(variables) ==
    \A key \in DOMAIN variables.f :
        validNameRegex(key) /\ variables.f[key].t = "string"

\* kontext hook activate <profile>: the script printed, none when the
\* command exits with 1
hookActivate(d, profileName) ==
    The({IF r.res /= "ok"
         THEN [exit |-> 1, script |-> <<>>]
         ELSE [exit |-> 0,
               script |-> generateActivationScript(
                              r.ret, profilesPath \o <<"/">> \o profileName)] :
         r \in {getProfile(d, profileName)}})

-----------------------------------------------------------------------------
(* The shell that evaluates the commands kontext prints *)

\* the state of the evaluating shell: its variables, the errors and warnings
\* it printed, and for every hook it ran the variables set at that moment
Shell(env, errs, seen) == [env |-> env, errs |-> errs, seen |-> seen]

VarNames == DOMAIN KeyChars

\* a double-quoted word: a backslash keeps the special character after it,
\* $NAME is replaced by the variable's value
RECURSIVE DQ(_, _)
DQ(text, env) ==
    IF text = <<>> THEN <<>>
    ELSE IF Head(text) = "\\" /\ Len(text) >= 2 /\ text[2] \in ShellSpecial
    THEN <<text[2]>> \o DQ(SubSeq(text, 3, Len(text)), env)
    ELSE IF Head(text) = "$" /\ Len(text) >= 2 /\ text[2] \in VarNames
    THEN (IF text[2] \in DOMAIN env THEN env[text[2]] ELSE <<>>)
         \o DQ(SubSeq(text, 3, Len(text)), env)
    ELSE <<Head(text)>> \o DQ(Tail(text), env)

Assign(env, name, value) ==
    [n \in DOMAIN env \cup {name} |-> IF n = name THEN value ELSE env[n]]

\* export NAME=value: an error for a name that is no identifier
shExport(st, name, value) ==
    IF name \in VarNames /\ validNameRegex(name)
    THEN Shell(Assign(st.env, name, value), st.errs, st.seen)
    ELSE Shell(st.env, Append(st.errs, "not a valid identifier"), st.seen)

shUnset(st, name) ==
    IF name \in VarNames /\ validNameRegex(name)
    THEN Shell([n \in DOMAIN st.env \ {name} |-> st.env[n]], st.errs,
               st.seen)
    ELSE Shell(st.env, Append(st.errs, "not a valid identifier"), st.seen)

\* [ -f path ]
isRegularFile(f, p) == fileExists(f, p) /\ Node(f, p).kind = "file"

\* ${value#q} then ${value%q}
stripQuote(value, q) ==
    LET v == IF value /= <<>> /\ Head(value) = q THEN Tail(value) ELSE value
    IN  IF v /= <<>> /\ v[Len(v)] = q THEN Front(v) ELSE v

\* IFS='=' read -r key value: the line up to its first =, and the rest
readKey(line) ==
    IF indexOf(line, "=") = 0 THEN line
    ELSE SubSeq(line, 1, indexOf(line, "=") - 1)

readValue(line) ==
    IF indexOf(line, "=") = 0 THEN <<>>
    ELSE SubSeq(line, indexOf(line, "=") + 1, Len(line))

\* [[ -z "$key" || "$key" =~ ^[[:space:]]*# ]] && continue
skipped(key) ==
    key = <<>> \/ (trimStart(key) /= <<>> /\ Head(trimStart(key)) = "#")

\* one round of the loop over the env file; unsetting = TRUE for the loop of
\* the deactivation script
loopLine(st, line, unsetting) ==
    LET key == readKey(line) IN
    IF skipped(key) THEN st
    ELSE IF Len(key) /= 1
    THEN Shell(st.env, Append(st.errs, "not a valid identifier"), st.seen)
    ELSE IF unsetting THEN shUnset(st, key[1])
    ELSE shExport(st, key[1],
                  stripQuote(stripQuote(readValue(line), "\""), "'"))

RECURSIVE loopLines(_, _, _)
loopLines(st, lines, unsetting) ==
    IF lines = <<>> THEN st
    ELSE loopLines(loopLine(st, Head(lines), unsetting), Tail(lines),
                   unsetting)

RECURSIVE evalAll(_, _, _)

\* the shell evaluating one command, f being the filesystem at that moment
evalCommand(st, cmd, f) ==
    CASE cmd.k = "export" -> shExport(st, cmd.name, DQ(cmd.text, st.env))
      [] cmd.k = "unset" -> shUnset(st, cmd.name)
      [] cmd.k = "hook" ->
            IF isRegularFile(f, cmd.path)
            THEN LET env == Assign(Assign(st.env, "KONTEXT_PROFILE", cmd.name),
                                   "KONTEXT_HOOK_TYPE", cmd.type)
                 IN  Shell(env, st.errs,
                           Append(st.seen, [type |-> cmd.type, env |-> env]))
            ELSE Shell(st.env, Append(st.errs, "hook not found"), st.seen)
      [] cmd.k = "loadenv" ->
            IF isRegularFile(f, cmd.path)
            THEN loopLines(st, Node(f, cmd.path).data.lines, FALSE)
            ELSE Shell(st.env, Append(st.errs, "env file not found"),
                       st.seen)
      [] cmd.k = "unsetenv" ->
            IF isRegularFile(f, cmd.path)
            THEN loopLines(st, Node(f, cmd.path).data.lines, TRUE)
            ELSE st
      [] cmd.k = "source" ->
            IF isRegularFile(f, cmd.path)
            THEN evalAll(st, Node(f, cmd.path).data.cmds, f)
            ELSE Shell(st.env, Append(st.errs, "script not found"), st.seen)

evalAll(st, cmds, f) ==
    IF cmds = <<>> THEN st
    ELSE evalAll(evalCommand(st, Head(cmds), f), Tail(cmds), f)

-----------------------------------------------------------------------------
(* Activation as a state machine: the CLI prints commands, the shell
   evaluates them one by one *)

EnvName == <<"w">>

\* the directory of the profile, <profilesRoot>/w
EnvDir == getProfileDirectoryPath(EnvName)

InDir(file) == <<PH, "/", file>>

BothHooks ==
    Obj([onActivate |-> Str(InDir("h")), onDeactivate |-> Str(InDir("d"))])

\* the profiles activated: with every step configured, with a variable that
\* refers to another, with a variable name that is no identifier, with
\* nothing, with dotfiles that apply and with dotfiles whose source is missing
EnvProfiles ==
    {Profile(EnvName, Undef,
             Environment(Obj(("API_URL" :> Str(<<"b">>))),
                         Str(InDir("e")), Str(InDir("s"))),
             Undef, BothHooks),
     Profile(EnvName, Undef,
             Environment(Obj(("API_URL" :> Str(<<"$", "K">>)) @@
                             ("K" :> Str(<<"a">>))),
                         Str(InDir("e")), Undef),
             Undef, Undef),
     Profile(EnvName, Undef,
             Environment(Obj(("A-B" :> Str(<<"b">>))), Undef, Undef),
             Undef, BothHooks),
     Profile(EnvName, Undef, Undef, Undef, Undef),
     Profile(EnvName, Obj([configPath |-> Str(InDir("g"))]),
             Environment(Obj(("API_URL" :> Str(<<"b">>))),
                         Str(InDir("e")), Str(InDir("s"))),
             Obj(("~/v" :> Str(InDir("a")))), Undef),
     Profile(EnvName, Obj([configPath |-> Str(InDir("g"))]),
             Environment(Obj(("API_URL" :> Str(<<"b">>))),
                         Str(InDir("e")), Str(InDir("s"))),
             Obj(("~/v" :> Str(InDir("m")))), Undef)}

\* the env file of the profile: a comment, two keys, one value in quotes
EnvFileLines ==
    <<<<"#", " ", "c">>,
      <<"API_URL", "=", "a">>,
      <<"E", "=", "\"", "q", "\"">>>>

\* what the profile's directory holds beside the manifest
ProfileFiles ==
    {<<>>,
     [q \in {join(EnvDir, <<"a">>), join(EnvDir, <<"h">>),
             join(EnvDir, <<"d">>), join(EnvDir, <<"e">>),
             join(EnvDir, <<"s">>)} |->
         IF q = join(EnvDir, <<"e">>) THEN File(EnvData(EnvFileLines))
         ELSE File(ScriptData(<<>>))],
     [q \in {join(EnvDir, <<"a">>), join(EnvDir, <<"h">>),
             join(EnvDir, <<"e">>), join(EnvDir, <<"s">>)} |->
         IF q = join(EnvDir, <<"e">>) THEN File(EnvData(EnvFileLines))
         ELSE IF q = join(EnvDir, <<"s">>)
         THEN File(ScriptData(<<Export("API_URL", <<"c">>)>>))
         ELSE File(ScriptData(<<>>))]}

\* the store holding the profile as createProfile persists it, the files of
\* the profile directory and the user's home directory
EnvFs(profile, files) ==
    LET persisted == createProfile(EmptyStore, profile).disk IN
    [q \in DOMAIN persisted \cup DOMAIN files \cup {homedir} |->
        IF q \in DOMAIN files THEN files[q]
        ELSE IF q = homedir THEN Dir
        ELSE persisted[q]]

NoOutput == [op |-> "none"]

NewShell == [env |-> <<>>, errs |-> <<>>, seen |-> <<>>, todo |-> <<>>,
             evals |-> <<>>]

InitEnv ==
    /\ \E profile \in EnvProfiles, files \in ProfileFiles,
          gitOk \in BOOLEAN :
          em = [profile |-> profile, fs |-> EnvFs(profile, files),
                backups |-> <<>>, gitOk |-> gitOk]
    /\ out = NoOutput
    /\ sh = NewShell
    /\ HookIdle
    /\ StoreIdle
    /\ scan = NoScan
    /\ mfs = <<>>
    /\ fs = <<>>
    /\ backups = <<>>
    /\ now = 0
    /\ dotfiles = <<>>
    /\ trail = <<>>

Printed(op, raised, commands, warnings) ==
    [op |-> op, raised |-> raised, commands |-> commands,
     warnings |-> warnings, fs |-> em.fs, backups |-> em.backups]

GenerateActivationScript ==
    /\ out' = Printed("generateActivationScript", "none",
                      generateActivationScript(em.profile, EnvDir), <<>>)
    /\ UNCHANGED <<em, sh, hk, dfVars, scanVars, storeVars>>

GenerateDeactivationScript(profile, pd) ==
    /\ out' = Printed("generateDeactivationScript", "none",
                      generateDeactivationScript(profile, pd), <<>>)
    /\ UNCHANGED <<em, sh, hk, dfVars, scanVars, storeVars>>

HookActivate ==
    /\ \E r \in {hookActivate(em.fs, EnvName)} :
          out' = Printed("hookActivate",
                         IF r.exit = 0 THEN "none" ELSE "exit",
                         r.script, <<>>)
    /\ UNCHANGED <<em, sh, hk, dfVars, scanVars, storeVars>>

ApplyProfile ==
    /\ \E r \in {applyProfile(em.profile, EnvDir, em.fs, em.backups, 0,
                              em.gitOk)} :
          /\ out' = Printed("applyProfile", r.raised, r.commands, r.warnings)
          /\ em' = [em EXCEPT !.fs = r.fs, !.backups = r.backups]
    /\ UNCHANGED <<sh, hk, dfVars, scanVars, storeVars>>

\* eval "$(kontext ...)": the shell takes the commands printed
ShellEval ==
    /\ out.op /= "none"
    /\ out.raised = "none"
    /\ sh.todo = <<>>
    /\ Len(sh.evals) < MaxEvals
    /\ sh' = [sh EXCEPT !.todo = out.commands,
                        !.evals = Append(sh.evals, out.op)]
    /\ out' = NoOutput
    /\ UNCHANGED <<em, hk, dfVars, scanVars, storeVars>>

\* the shell evaluates the next command
ShellStep ==
    /\ sh.todo /= <<>>
    /\ \E st \in {evalCommand(Shell(sh.env, sh.errs, sh.seen), Head(sh.todo),
                              em.fs)} :
          sh' = [sh EXCEPT !.env = st.env, !.errs = st.errs,
                           !.seen = IF Len(st.seen) > Len(sh.seen)
                                    THEN Append(sh.seen,
                                                st.seen[Len(st.seen)] @@
                                                [eval |-> Len(sh.evals)])
                                    ELSE sh.seen,
                           !.todo = Tail(sh.todo)]
    /\ UNCHANGED <<em, out, hk, dfVars, scanVars, storeVars>>

NextEnv ==
    \/ GenerateActivationScript
    \/ \E profile \in {em.profile, Undef}, pd \in {EnvDir, <<>>} :
           GenerateDeactivationScript(profile, pd)
    \/ HookActivate
    \/ ApplyProfile
    \/ ShellEval
    \/ ShellStep

SpecEnv == InitEnv /\ [][NextEnv]_vars

-----------------------------------------------------------------------------
(* HookManager: one executeHook call, the child it spawns and its timer *)

HookTypes == {"activate", "deactivate"}

\* the call before its first step; the hook file is there or not, executable
\* or not, chmod and spawn succeed or fail
HookCall(hookType, exists, executable, chmodOk, spawnOk) ==
    [pc |-> "called", hookType |-> hookType, exists |-> exists,
     executable |-> executable, chmodOk |-> chmodOk, spawnOk |-> spawnOk,
     child |-> "none", timer |-> "none", promise |-> "none",
     warnings |-> <<>>, signals |-> 0, lateSignals |-> 0, raised |-> FALSE]

Warn(h, message) == [h EXCEPT !.warnings = Append(h.warnings, message)]

\* lines 16-21: the hook file is looked up
lookup(h) ==
    IF ~h.exists
    THEN [Warn(h, "Hook script not found") EXCEPT !.pc = "returned"]
    ELSE [h EXCEPT !.pc = "access"]

\* lines 24-29: access(X_OK), and chmod when it fails; a failing chmod throws
ensureExecutable(h) ==
    IF h.executable THEN [h EXCEPT !.pc = "run"]
    ELSE IF h.chmodOk THEN [h EXCEPT !.pc = "run", !.executable = TRUE]
    ELSE [h EXCEPT !.pc = "thrown"]

\* lines 78-112: the child is spawned, the handlers and the timer are set
runHookScript(h) ==
    [h EXCEPT !.pc = "awaiting",
              !.child = IF h.spawnOk THEN "running" ELSE "failed",
              !.timer = "armed",
              !.promise = "pending"]

\* a promise settles once
settle(h, how) == IF h.promise = "pending" THEN how ELSE h.promise

\* lines 91-97 and 109-111: the two handlers of 'close'
onClose(h, code) ==
    [h EXCEPT !.child = "closed",
              !.promise = settle(h, IF code = 0 THEN "resolved"
                                    ELSE "rejected"),
              !.timer = IF h.timer = "armed" THEN "cleared" ELSE h.timer]

\* lines 99-101: the handler of 'error'
onError(h) == [h EXCEPT !.child = "errored",
                        !.promise = settle(h, "rejected")]

\* the timer's callback sending the signal and leaving the promise pending
onTimeout_KillOnly(h) ==
    [h EXCEPT !.timer = "fired",
              !.signals = IF h.child = "running" THEN h.signals + 1
                          ELSE h.signals,
              !.lateSignals = IF h.child = "closed" THEN h.lateSignals + 1
                              ELSE h.lateSignals]

\* lines 104-107: the timer's callback
onTimeout(h) ==
    [h EXCEPT !.timer = "fired",
              !.signals = IF h.child = "running" THEN h.signals + 1
                          ELSE h.signals,
              !.lateSignals = IF h.child = "closed" THEN h.lateSignals + 1
                              ELSE h.lateSignals,
              !.promise = settle(h, "rejected")]

\* the catch block rethrowing instead of warning
executeHookCatch_Rethrow(h) == [h EXCEPT !.pc = "returned", !.raised = TRUE]

\* lines 32-34: the catch block of executeHook
executeHookCatch(h) ==
    [Warn(h, "Hook execution failed") EXCEPT !.pc = "returned"]

InitHook ==
    /\ \E hookType \in HookTypes,
          exists, executable, chmodOk, spawnOk \in BOOLEAN :
          hk = HookCall(hookType, exists, executable, chmodOk, spawnOk)
    /\ EnvIdle
    /\ StoreIdle
    /\ scan = NoScan
    /\ mfs = <<>>
    /\ fs = <<>>
    /\ backups = <<>>
    /\ now = 0
    /\ dotfiles = <<>>
    /\ trail = <<>>

hookRest == <<em, out, sh, dfVars, scanVars, storeVars>>

ExecuteHook ==
    /\ hk.pc = "called"
    /\ hk' = lookup(hk)
    /\ UNCHANGED hookRest

EnsureExecutable ==
    /\ hk.pc = "access"
    /\ hk' = ensureExecutable(hk)
    /\ UNCHANGED hookRest

RunHookScript ==
    /\ hk.pc = "run"
    /\ hk' = runHookScript(hk)
    /\ UNCHANGED hookRest

\* the child ends by itself or by the signal, and is free never to end; a
\* spawn that failed may report 'close' after 'error'
ChildClose(code) ==
    /\ hk.child \in {"running", "errored"}
    /\ hk' = onClose(hk, code)
    /\ UNCHANGED hookRest

\* the spawn that failed is reported
ChildError ==
    /\ hk.child = "failed"
    /\ hk' = onError(hk)
    /\ UNCHANGED hookRest

\* the 30 seconds are over
Timeout ==
    /\ hk.timer = "armed"
    /\ hk' = onTimeout(hk)
    /\ UNCHANGED hookRest

\* the awaited promise has settled: executeHook goes on
Resume ==
    /\ hk.pc = "awaiting"
    /\ hk.promise \in {"resolved", "rejected"}
    /\ hk' = [hk EXCEPT !.pc = IF hk.promise = "resolved" THEN "returned"
                               ELSE "thrown"]
    /\ UNCHANGED hookRest

Catch ==
    /\ hk.pc = "thrown"
    /\ hk' = executeHookCatch(hk)
    /\ UNCHANGED hookRest

NextHook ==
    \/ ExecuteHook
    \/ EnsureExecutable
    \/ RunHookScript
    \/ \E code \in {0, 1} : ChildClose(code)
    \/ ChildError
    \/ Timeout
    \/ Resume
    \/ Catch

SpecHook == InitHook /\ [][NextHook]_vars

\* the event loop runs every callback that is due, and the timer comes due
SpecHookFair ==
    /\ SpecHook
    /\ WF_vars(ExecuteHook) /\ WF_vars(EnsureExecutable)
    /\ WF_vars(RunHookScript) /\ WF_vars(ChildError) /\ WF_vars(Timeout)
    /\ WF_vars(Resume) /\ WF_vars(Catch)

-----------------------------------------------------------------------------
(* The shell integration: kontext hook init installed in a bash or zsh
   session, __kontext_check_directory run at startup and after every cd *)

\* kontext hook get-profile: the name printed, nothing when there is none
hookGetProfile(m, dir) ==
    The({IF a.isNull THEN <<>> ELSE a.name : a \in {getActiveProfile(m, dir)}})

\* kontext hook deactivate <profile>: the script printed, none when the
\* command exits with 1
hookDeactivate(d, profileName) ==
    The({IF r.res = "LoadError"
         THEN [exit |-> 1, script |-> <<>>]
         ELSE [exit |-> 0,
               script |-> generateDeactivationScript(
                              IF r.res = "ok" THEN r.ret ELSE Undef,
                              profilesPath \o <<"/">> \o profileName)] :
         r \in {getProfile(d, profileName)}})

\* lines 70-76: the new profile's script is evaluated, s.tty is what
\* reached the terminal
activateNew(s, d, active_profile) ==
    IF active_profile /= <<>>
    THEN The({[s EXCEPT !.env = st.env, !.errs = st.errs,
                        !.current_profile = active_profile] :
              st \in {evalAll(Shell(s.env, s.errs, <<>>),
                              hookActivate(d, active_profile).script, d)}})
    ELSE [s EXCEPT !.current_profile = <<>>]

\* __kontext_check_directory, lines 52-79
kontext_check_directory(s, m, d) ==
    IF s.pwd = s.last_dir THEN s
    ELSE The({IF active_profile = s.current_profile
              THEN [s EXCEPT !.last_dir = s.pwd]
              ELSE IF s.current_profile /= <<>>
              THEN activateNew([s EXCEPT !.last_dir = s.pwd,
                                         !.tty = hookDeactivate(
                                                     d, s.current_profile)
                                                     .script],
                               d, active_profile)
              ELSE activateNew([s EXCEPT !.last_dir = s.pwd], d,
                               active_profile) :
              active_profile \in {hookGetProfile(m, s.pwd)}})

\* the two profiles of the store, each with a variable of its own
TaggedProfiles ==
    <<Profile(<<"w">>, Undef,
              Environment(Obj(("API_URL" :> Str(<<"b">>))), Undef, Undef),
              Undef, Undef),
      Profile(<<"p">>, Undef,
              Environment(Obj(("K" :> Str(<<"a">>))), Undef, Undef),
              Undef, Undef)>>

TaggedStore ==
    createProfile(createProfile(EmptyStore, TaggedProfiles[1]).disk,
                  TaggedProfiles[2]).disk

\* directories tagged with one of the two profiles, in every way
TagLayouts ==
    UNION {[{join(d, PROFILE_FILE_NAME) : d \in ds} ->
               {Marker(<<"w", "\n">>), Marker(<<"p", "\n">>)}] :
              ds \in SUBSET Dirs}

\* a new session in directory dir, before the integration has run
Session(dir) ==
    [pwd |-> dir, last_dir |-> <<>>, current_profile |-> <<>>,
     env |-> <<>>, errs |-> <<>>, tty |-> <<>>]

InitShell ==
    /\ mfs \in TagLayouts
    /\ em = [fs |-> TaggedStore]
    /\ \E dir \in Dirs :
          sh = kontext_check_directory(Session(dir), mfs, em.fs)
    /\ out = NoOutput
    /\ scan = NoScan
    /\ fs = <<>>
    /\ backups = <<>>
    /\ now = 0
    /\ dotfiles = <<>>
    /\ trail = <<>>
    /\ StoreIdle
    /\ HookIdle

\* cd dir: the builtin, then __kontext_check_directory (lines 99-102, the
\* chpwd hook of zsh)
Cd(dir) ==
    /\ sh' = kontext_check_directory([sh EXCEPT !.pwd = dir, !.tty = <<>>],
                                      mfs, em.fs)
    /\ UNCHANGED <<em, out, mfs, scan, hk, dfVars, storeVars>>

NextShell == \E dir \in Dirs : Cd(dir)

SpecShell == InitShell /\ [][NextShell]_vars

-----------------------------------------------------------------------------
(* Claims about the dotfile engine *)

Applies == {k \in 1..Len(trail) : trail[k].op = "apply"}
Removes == {k \in 1..Len(trail) : trail[k].op = "remove"}

\* the source of an entry, placeholder substituted and `..' resolved, is
\* neither profileDir nor below it
Outside(entry) ==
    LET n == normalize(resolveProfilePath(profileDir, entry.source)) IN
    ~(n = profileDir \/ startsWith(n, profileDir \o <<"/">>))

\* C1: applyDotfiles never creates a symlink for an entry whose resolved
\* source lies outside profileDir, and does not succeed on such a mapping:
\* reaching that entry ends the call with the sandbox violation.
C1_SandboxEnforced ==
    \A k \in Applies : \A i \in 1..Len(dotfiles) :
        Outside(dotfiles[i]) =>
            /\ i \notin trail[k].made
            /\ trail[k].err /= "none"
            /\ trail[k].failedAt = i => trail[k].err = "PathEscape"

\* C2: removeDotfiles, when applyDotfiles has never been called, leaves the
\* filesystem as it was and raises no error.
C2_RemoveWithoutApplyIsNoOp ==
    \A k \in Removes :
        (\A j \in 1..k : trail[j].op /= "apply") =>
            /\ trail[k].err = "none"
            /\ trail[k].post = trail[k].pre

HeldFileOrLink(f, p) == p \in DOMAIN f /\ f[p].kind \in {"file", "link"}

\* C3: within one process, a successful applyDotfiles directly followed by
\* removeDotfiles on the same mapping puts back every target that held a
\* regular file or a symlink, and leaves no backup record for it.
C3_ApplyRemoveRestores ==
    \A k \in Applies :
        (k + 1 \in Removes /\ trail[k].err = "none") =>
            \A i \in 1..Len(dotfiles) :
                LET t == resolvePath(dotfiles[i].target) IN
                HeldFileOrLink(trail[k].pre, t) =>
                    /\ t \in DOMAIN trail[k + 1].post
                    /\ trail[k + 1].post[t] = trail[k].pre[t]
                    /\ t \notin DOMAIN trail[k + 1].bkPost

-----------------------------------------------------------------------------
(* Claims about the directory resolver *)

Stack(d) == NormComps(Split(d), <<>>)

\* d and its ancestors, up to and including the root
AncestorsOrSelf(d) == {AbsPath(SubSeq(Stack(d), 1, k)) : k \in 0..Len(Stack(d))}

\* the directories on the chain of d that hold a marker
Holders(m, d) ==
    {a \in AncestorsOrSelf(d) : join(a, PROFILE_FILE_NAME) \in DOMAIN m}

Closest(m, d) ==
    CHOOSE a \in Holders(m, d) :
        \A b \in Holders(m, d) : Len(Stack(b)) <= Len(Stack(a))

\* the marker paths from d up to the root, nearest first
ChainPaths(d) ==
    [k \in 1..(Len(Stack(d)) + 1) |->
        join(AbsPath(SubSeq(Stack(d), 1, Len(Stack(d)) + 1 - k)),
             PROFILE_FILE_NAME)]

\* C4: findProfileFile returns the marker of the closest directory on the
\* chain from startDir up to and including the root that holds one.
C4_NearestMarkerWins ==
    scan.op = "find" =>
        IF Holders(mfs, scan.startDir) = {}
        THEN ~scan.r.found
        ELSE /\ scan.r.found
             /\ scan.r.path =
                    join(Closest(mfs, scan.startDir), PROFILE_FILE_NAME)

\* a start directory without a marker inherits its parent's marker, which
\* shadows the one in the root
C4_Witness ==
    /\ scan.op = "find"
    /\ Len(Stack(scan.startDir)) = 2
    /\ Holders(mfs, scan.startDir) = {<<"/">>, ChainDir(1)}
    /\ scan.r.found
    /\ scan.r.path = join(ChainDir(1), PROFILE_FILE_NAME)

\* C5: with no marker anywhere on the chain, findProfileFile and
\* getActiveProfile return none after testing each directory of the chain
\* exactly once, from the start directory up to the root.
C5_NoMarkerGivesNone ==
    (scan.op \in {"find", "active"} /\ Holders(mfs, scan.startDir) = {}) =>
        /\ scan.op = "find" => ~scan.r.found
        /\ scan.op = "active" => (scan.r.isNull /\ ~scan.r.raised)
        /\ scan.r.checked = ChainPaths(scan.startDir)

\* the only marker is in a directory below the start directory
C5_Witness ==
    /\ scan.op = "active"
    /\ Len(Stack(scan.startDir)) = 1
    /\ Holders(mfs, scan.startDir) = {}
    /\ mfs /= <<>>
    /\ scan.r.isNull
    /\ Len(scan.r.checked) = 2

\* the marker file cannot be read, is empty once trimmed, or names no
\* valid profile
BadMarker(node) ==
    \/ ~node.readable
    \/ trim(node.content) = <<>>
    \/ ~NamePattern(trim(node.content))

\* C6: getActiveProfile never raises; when the nearest marker is bad it
\* returns none, whatever the markers of farther ancestors hold.
C6_ResolutionNeverRaises ==
    scan.op = "active" =>
        /\ ~scan.r.raised
        /\ (/\ Holders(mfs, scan.startDir) /= {}
            /\ BadMarker(mfs[join(Closest(mfs, scan.startDir),
                                  PROFILE_FILE_NAME)]))
           => scan.r.isNull

\* the nearest marker is bad, the root's marker is valid, the result is none
C6_Witness ==
    /\ scan.op = "active"
    /\ Len(Stack(scan.startDir)) = 2
    /\ Holders(mfs, scan.startDir) = {<<"/">>, ChainDir(2)}
    /\ BadMarker(mfs[join(ChainDir(2), PROFILE_FILE_NAME)])
    /\ ~BadMarker(mfs[join(<<"/">>, PROFILE_FILE_NAME)])
    /\ scan.r.isNull
    /\ scan.r.warned

-----------------------------------------------------------------------------
(* Claims about the profile store and the delete command *)

ActiveName(m, dir) ==
    IF getActiveProfile(m, dir).isNull THEN Null
    ELSE Str(getActiveProfile(m, dir).name)

\* C7: the delete command, invoked for an existing profile that is the active
\* profile of the working directory, ends with the active-profile error
\* before the confirmation and before deleteProfile; the store is unchanged.
C7_ActiveProfileNotDeleted ==
    (/\ last.op = "deleteCommand"
     /\ profileExists(last.pre, last.name)
     /\ ActiveName(mfs, cwd) = Str(last.name)) =>
        /\ last.res = "ActiveProfile"
        /\ disk = last.pre
        /\ \A i \in 1..Len(last.steps) :
               last.steps[i] \notin {"confirmDeletion", "deleteProfile"}

C7_Witness ==
    /\ last.op = "deleteCommand"
    /\ last.name = <<"p">>
    /\ profileExists(last.pre, last.name)
    /\ ActiveName(mfs, cwd) = Str(last.name)
    /\ last.res = "ActiveProfile"
    /\ profileExists(disk, last.name)

\* two profiles agree in all fields, an absent field being an undefined one
SameProfile(a, b) == StripUndef(a) = StripUndef(b)

\* C8: getProfile(p.name) after createProfile(p) returns a profile equal to p
\* in all fields.
C8_CreateGetRoundTrip ==
    (last.op = "getProfile" /\ last.name \in DOMAIN orig) =>
        /\ last.res = "ok"
        /\ SameProfile(last.ret, orig[last.name])

\* C9: createProfile fails with already-exists exactly when the profile is
\* persisted (profileExists reports it) and then writes nothing; otherwise it
\* creates the profile's directory and writes its manifest.
C9_CreateFailsIffPersisted ==
    last.op = "createProfile" =>
        /\ last.res = "AlreadyExists" <=> profileExists(last.pre, last.name)
        /\ last.res = "AlreadyExists" => disk = last.pre
        /\ ~profileExists(last.pre, last.name) =>
               /\ last.res = "ok"
               /\ IsDir(disk, getProfileDirectoryPath(last.name))
               /\ profileExists(disk, last.name)

IsString(v) == v.t = "string"
IsStringMap(v) ==
    v.t = "object" /\ \A k \in DOMAIN v.f : IsString(v.f[k])
Optional(v, Type(_)) == v = Undef \/ Type(v)
IsGitConfig(v) ==
    v.t = "object" /\ Optional(Get(v, "config_path"), IsString)
IsEnvironmentConfig(v) ==
    /\ v.t = "object"
    /\ Optional(Get(v, "variables"), IsStringMap)
    /\ Optional(Get(v, "env_file"), IsString)
    /\ Optional(Get(v, "script_path"), IsString)
IsHooksConfig(v) ==
    /\ v.t = "object"
    /\ Optional(Get(v, "on_activate"), IsString)
    /\ Optional(Get(v, "on_deactivate"), IsString)

\* the manifest schema: an object with a name that is a string, and every
\* other field, when present, of its declared type
MatchesSchema(content) ==
    /\ content /= Malformed
    /\ content.doc.t = "object"
    /\ IsString(Get(content.doc, "name"))
    /\ Optional(Get(content.doc, "git"), IsGitConfig)
    /\ Optional(Get(content.doc, "environment"), IsEnvironmentConfig)
    /\ Optional(Get(content.doc, "dotfiles"), IsStringMap)
    /\ Optional(Get(content.doc, "hooks"), IsHooksConfig)

\* C10: getProfile returns none exactly when no manifest is persisted, and
\* fails with a load error when the persisted manifest fails the schema.
C10_GetDistinguishesCorrupt ==
    last.op = "getProfile" =>
        /\ last.res = "null" <=> ~profileExists(last.pre, last.name)
        /\ (/\ profileExists(last.pre, last.name)
            /\ ~MatchesSchema(Node(last.pre,
                                   getProfileManifestPath(last.name)).data))
           => last.res = "LoadError"

\* the names of the subdirectories of the profiles root
Subdirectories(d) ==
    {item.name : item \in {i \in readdir(d, profilesPath) : i.isDirectory}}

\* C11: listProfiles returns exactly the names of the subdirectories of the
\* profiles root whose manifest getProfile accepts; a subdirectory without a
\* manifest is left out without error and no name with a manifest that
\* getProfile rejects is listed.
C11_ListIsValidManifests ==
    last.op = "listProfiles" =>
        /\ last.res = "ok"
        /\ last.ret = {n \in Subdirectories(last.pre) :
                           getProfile(last.pre, n).res = "ok"}

\* the paths created, removed or given another content between d and e
Touched(d, e) ==
    {q \in DOMAIN d \cup DOMAIN e :
        q \notin DOMAIN d \/ q \notin DOMAIN e \/ d[q] /= e[q]}

\* q is the directory of profile n, a directory below the profiles root, or
\* a path inside it
InOwnTree(q, n) ==
    LET own == getProfileDirectoryPath(n) IN
    /\ startsWith(own, profilesPath \o <<"/">>)
    /\ q = own \/ startsWith(q, own \o <<"/">>)

\* C12: createProfile, updateProfile and deleteProfile for a profile named n
\* create, modify and remove only paths inside <profilesRoot>/n, for every
\* name n the operation accepts.
C12_StoreStaysInOwnTree ==
    last.op \in {"createProfile", "updateProfile", "deleteProfile"} =>
        \A q \in Touched(last.pre, disk) : InOwnTree(q, last.name)

-----------------------------------------------------------------------------
(* Claims about activation and deactivation *)

\* the keys of the profile's explicit variables
VarKeys(profile) ==
    LET variables == Get(Get(profile, "environment"), "variables") IN
    IF variables.t = "object" THEN DOMAIN variables.f ELSE {}

\* the path of the profile's env file, empty when none is configured
EnvFilePath(profile) ==
    LET envFile == Get(Get(profile, "environment"), "envFile") IN
    IF Truthy(envFile) THEN resolveProfilePath(EnvDir, envFile.s) ELSE <<>>

\* the keys the profile's env file defines
EnvFileKeys(profile, f) ==
    IF EnvFilePath(profile) /= <<>> /\ isRegularFile(f, EnvFilePath(profile))
    THEN {key \in VarNames :
             \E i \in 1..Len(Node(f, EnvFilePath(profile)).data.lines) :
                 readKey(Node(f, EnvFilePath(profile)).data.lines[i])
                     = <<key>>}
    ELSE {}

Configured(profile, group, field) == Truthy(Get(Get(profile, group), field))

\* the place of a command in the order of activation
ActivationRank(cmd, profile) ==
    CASE cmd.k = "export" /\ cmd.name = "KONTEXT_PROFILE_DIR" -> 1
      [] cmd.k = "hook" /\ cmd.type = "activate" -> 2
      [] cmd.k = "loadenv" -> 3
      [] cmd.k = "export" /\ cmd.name \in VarKeys(profile) -> 4
      [] cmd.k = "source" -> 5
      [] cmd.k = "export" /\ cmd.name = "KONTEXT_CURRENT_PROFILE" -> 6
      [] OTHER -> 0

Ranks(cmds, Rank(_, _), profile) ==
    [i \in 1..Len(cmds) |-> Rank(cmds[i], profile)]

\* every command has a place, the places never go down, and only the
\* variables share one
InOrder(ranks, shared) ==
    /\ \A i \in 1..Len(ranks) : ranks[i] /= 0
    /\ \A i, j \in 1..Len(ranks) :
           i < j => \/ ranks[i] < ranks[j]
                    \/ ranks[i] = ranks[j] /\ ranks[i] = shared

Has(ranks, r) == \E i \in 1..Len(ranks) : ranks[i] = r

\* C14: generateActivationScript emits, for every profile: the export of the
\* profile directory, the activation-hook block if a hook is configured, the
\* loading of the env file if configured, the exports of the variables, the
\* sourcing of scriptPath if configured, and the export of
\* KONTEXT_CURRENT_PROFILE last; a shell that evaluates the script has set no
\* profile variable and no current-profile marker when the hook runs.
C14_ActivationOrder ==
    /\ out.op = "generateActivationScript" =>
          LET ranks == Ranks(out.commands, ActivationRank, em.profile) IN
          /\ InOrder(ranks, 4)
          /\ ranks[1] = 1
          /\ ranks[Len(ranks)] = 6
          /\ Has(ranks, 2) <=> Configured(em.profile, "hooks", "onActivate")
          /\ Has(ranks, 3) <=> Configured(em.profile, "environment", "envFile")
          /\ {out.commands[i].name :
                 i \in {j \in 1..Len(ranks) : ranks[j] = 4}}
                 = VarKeys(em.profile)
          /\ Has(ranks, 5)
                 <=> Configured(em.profile, "environment", "scriptPath")
    /\ \A i \in 1..Len(sh.seen) :
          (/\ sh.seen[i].type = "activate"
           /\ sh.seen[i].eval = 1
           /\ sh.evals[1] = "generateActivationScript")
          => DOMAIN sh.seen[i].env
                \subseteq {"KONTEXT_PROFILE_DIR", "KONTEXT_PROFILE",
                           "KONTEXT_HOOK_TYPE"}

\* the script of the profile with every step has been evaluated: the hook ran
\* before any variable was set
C14_Witness ==
    /\ sh.evals = <<"generateActivationScript">>
    /\ sh.todo = <<>>
    /\ Len(sh.seen) = 1
    /\ sh.seen[1].type = "activate"
    /\ "API_URL" \notin DOMAIN sh.seen[1].env
    /\ {"API_URL", "E", "KONTEXT_CURRENT_PROFILE"} \subseteq DOMAIN sh.env

\* the value no character of which the shell interprets
Plain(value) == \A i \in 1..Len(value) : value[i] \notin ShellSpecial

\* what the profile's script, when it is there, exports for key
ScriptExports(profile, f, key) ==
    LET scriptPath == Get(Get(profile, "environment"), "scriptPath")
        script == resolveScriptPath(scriptPath.s, EnvDir)
    IN  IF Truthy(scriptPath) /\ isRegularFile(f, script)
        THEN {cmd.text : cmd \in
                 {Node(f, script).data.cmds[i] :
                     i \in {j \in 1..Len(Node(f, script).data.cmds) :
                               Node(f, script).data.cmds[j].name = key}}}
        ELSE {}

DeactivationRank(cmd, profile) ==
    CASE cmd.k = "unsetenv" -> 1
      [] cmd.k = "unset" /\ cmd.name \in VarKeys(profile) -> 2
      [] cmd.k = "unset" /\ cmd.name = "KONTEXT_CURRENT_PROFILE" -> 3
      [] cmd.k = "unset" /\ cmd.name = "KONTEXT_PROFILE_DIR" -> 4
      [] cmd.k = "hook" /\ cmd.type = "deactivate" -> 5
      [] OTHER -> 0

\* C16: generateDeactivationScript emits the unset of the env-file names,
\* then the unset of each explicit variable, then the unset of
\* KONTEXT_CURRENT_PROFILE and of KONTEXT_PROFILE_DIR, and the
\* deactivation-hook block last; when the hook runs in the evaluating shell,
\* every profile variable and both markers are unset.
C16_DeactivationOrder ==
    /\ out.op = "generateDeactivationScript" =>
          LET ranks == Ranks(out.commands, DeactivationRank, em.profile) IN
          /\ InOrder(ranks, 2)
          /\ Has(ranks, 3) /\ Has(ranks, 4)
          /\ Has(ranks, 5) => ranks[Len(ranks)] = 5
    /\ \A i \in 1..Len(sh.seen) :
          sh.seen[i].type = "deactivate" =>
              DOMAIN sh.seen[i].env
                  \cap (VarKeys(em.profile)
                        \cup EnvFileKeys(em.profile, em.fs)
                        \cup {"KONTEXT_CURRENT_PROFILE",
                              "KONTEXT_PROFILE_DIR"}) = {}

\* activation, then deactivation: both hooks ran, the second one in a shell
\* without the variables the first evaluation had set
C16_Witness ==
    /\ sh.evals = <<"generateActivationScript", "generateDeactivationScript">>
    /\ sh.todo = <<>>
    /\ Len(sh.seen) = 2
    /\ sh.seen[1].type = "activate"
    /\ sh.seen[2].type = "deactivate"
    /\ {"API_URL", "E"} \subseteq EnvFileKeys(em.profile, em.fs)
    /\ "API_URL" \in VarKeys(em.profile)
    /\ DOMAIN sh.env = {"KONTEXT_PROFILE", "KONTEXT_HOOK_TYPE"}

\* the marker exports that end applyProfile's commands
MarkerExports(profile) ==
    <<Export("KONTEXT_CURRENT_PROFILE", Get(profile, "name").s),
      Export("KONTEXT_PROFILE_DIR", EnvDir)>>

\* the dotfile step of applyProfile, run on the filesystem f, fails
DotfileStepFails(profile, f, b) ==
    /\ Truthy(Get(profile, "dotfiles"))
    /\ applyDotfiles(f, b, EnvDir, dotfileEntries(Get(profile, "dotfiles")),
                     0).err /= "none"

GitStepFails(profile, gitOk) ==
    Truthy(Get(Get(profile, "git"), "configPath")) /\ ~gitOk

\* C19: when the dotfile step or the git step of applyProfile fails, the
\* failure is a warning and the env-file exports, the variable exports, the
\* script sourcing and the two marker exports are still returned.
C19_StepFailuresAreWarnings ==
    (/\ out.op = "applyProfile"
     /\ \/ DotfileStepFails(em.profile, out.fs, out.backups)
        \/ GitStepFails(em.profile, em.gitOk)) =>
        /\ out.raised = "none"
        /\ out.warnings /= <<>>
        /\ out.commands
               = exportsOf(em.profile, EnvDir, em.fs, em.backups,
                           <<>>).commands
        /\ SubSeq(out.commands, Len(out.commands) - 1, Len(out.commands))
               = MarkerExports(em.profile)

\* C20: no output of generateActivationScript, of applyProfile or of the
\* hook's activate command exports an explicit variable whose name fails
\* [A-Za-z_][A-Za-z0-9_]*.
C20_VariableNamesValidated ==
    out.op \in {"generateActivationScript", "applyProfile", "hookActivate"} =>
        \A i \in 1..Len(out.commands) :
            (/\ out.commands[i].k = "export"
             /\ out.commands[i].name \in VarKeys(em.profile))
            => validNameRegex(out.commands[i].name)

-----------------------------------------------------------------------------
(* Claims about the hook runner *)

\* the call runs into one of the failures executeHook catches
HookFails(h) ==
    \/ ~h.exists
    \/ ~h.executable /\ ~h.chmodOk
    \/ h.promise = "rejected"

\* C17: executeHook never raises to its caller; when the hook file is
\* missing, the permission repair fails, the spawn fails, the hook exits
\* with a code other than 0 or the timer fires, it returns having logged one
\* warning; when the file is missing no child is spawned.
C17_ExecuteHookNeverRaises ==
    /\ ~hk.raised
    /\ hk.pc = "returned" =>
          Len(hk.warnings) = (IF HookFails(hk) THEN 1 ELSE 0)
    /\ ~hk.exists => hk.child = "none" /\ hk.timer = "none"

\* the hook exited with a code other than 0 before the timer fired
C17_Witness ==
    /\ hk.pc = "returned"
    /\ hk.child = "closed"
    /\ hk.timer = "cleared"
    /\ hk.promise = "rejected"
    /\ Len(hk.warnings) = 1
    /\ ~hk.raised

\* C18: every executeHook call returns; when the timer fires the child that
\* has not closed is sent the signal and the call returns with a warning and
\* no error whether or not the child ever closes; no signal is sent to a
\* child that has closed, whose close cancels the timer.
C18_ExecuteHookReturns ==
    /\ <>(hk.pc = "returned")
    /\ [](hk.lateSignals = 0)
    /\ [](hk.child = "closed" => hk.timer \in {"cleared", "fired"})
    /\ []((hk.timer = "fired" /\ hk.signals = 0) => hk.child /= "running")
    /\ []((hk.pc = "returned" /\ hk.timer = "fired"
              /\ hk.promise = "rejected" /\ hk.child = "running")
             => Len(hk.warnings) = 1 /\ ~hk.raised)

\* the call has returned with its warning, the child has the signal and is
\* still running
C18_Witness ==
    /\ hk.pc = "returned"
    /\ hk.timer = "fired"
    /\ hk.signals = 1
    /\ hk.child = "running"
    /\ Len(hk.warnings) = 1
    /\ ~hk.raised

-----------------------------------------------------------------------------
(* Further claims about the dotfile engine *)

\* ConfigFileManager.backups when operation k of the trail began
BkPre(k) == IF k = 1 THEN <<>> ELSE trail[k - 1].bkPost

\* applyDotfiles number k got as far as entry i
Reached(k, i) == trail[k].failedAt = 0 \/ trail[k].failedAt >= i

\* the source of an entry is inside the profile directory and nothing is there
SourceGone(f, entry) ==
    /\ ~Outside(entry)
    /\ ~fileExists(f, resolveProfilePath(profileDir, entry.source))

\* the source of an entry is inside the profile directory and exists
SourceThere(f, entry) ==
    /\ ~Outside(entry)
    /\ fileExists(f, resolveProfilePath(profileDir, entry.source))

\* no other entry of the mapping resolves to the target of entry i
Alone(i) ==
    \A j \in 1..Len(dotfiles) :
        j /= i => resolvePath(dotfiles[j].target)
                      /= resolvePath(dotfiles[i].target)

\* C21: applyDotfiles, on reaching an entry whose source does not exist,
\* fails there with the source-missing error and has done nothing for that
\* entry: the filesystem and the backup records are those the entries before
\* it left (no backup, no move, no unlink, no directory, no symlink).
C21_MissingSourceTouchesNothing ==
    \A k \in Applies : \A i \in 1..Len(dotfiles) :
        (SourceGone(trail[k].pre, dotfiles[i]) /\ Reached(k, i)) =>
            /\ trail[k].failedAt = i
            /\ trail[k].err = "SourceMissing"
            /\ i \notin trail[k].made
            /\ \E t \in 0..MaxNow :
               \E r \in {applyDotfiles(trail[k].pre, BkPre(k), profileDir,
                                       SubSeq(dotfiles, 1, i - 1), t)} :
                  /\ r.err = "none"
                  /\ trail[k].post = r.fs
                  /\ trail[k].bkPost = r.backups

\* a call failed on a missing source at its second entry, below a directory
\* that does not exist, after it had linked the first
C21_Witness ==
    \E k \in Applies :
        /\ trail[k].err = "SourceMissing"
        /\ trail[k].failedAt = 2
        /\ trail[k].made = {1}
        /\ ~fileExists(trail[k].pre, dirname(resolvePath(dotfiles[2].target)))

\* C22: whatever is at the target beforehand (regular file, directory, symlink
\* to an existing file, dangling symlink), applyDotfiles records a backup of
\* it under the resolved target path and leaves the target a symlink to the
\* resolved source.
C22_ExistingTargetBackedUp ==
    \A k \in Applies : \A i \in 1..Len(dotfiles) :
        LET t == resolvePath(dotfiles[i].target)
            s == resolveProfilePath(profileDir, dotfiles[i].source)
        IN  (/\ Alone(i)
             /\ SourceThere(trail[k].pre, dotfiles[i])
             /\ Reached(k, i)
             /\ t \in DOMAIN trail[k].pre) =>
                /\ i \in trail[k].made
                /\ t \in DOMAIN trail[k].post
                /\ trail[k].post[t] = Link(s)
                /\ t \in DOMAIN trail[k].bkPost
                /\ trail[k].bkPost[t].originalPath = t
                /\ IF trail[k].pre[t].kind = "link"
                   THEN /\ trail[k].bkPost[t].wasSymlink
                        /\ trail[k].bkPost[t].symlinkTarget
                               = trail[k].pre[t].to
                   ELSE /\ ~trail[k].bkPost[t].wasSymlink
                        /\ trail[k].bkPost[t].backupPath
                               \in DOMAIN trail[k].post
                        /\ trail[k].post[trail[k].bkPost[t].backupPath]
                               = trail[k].pre[t]

\* C26: applyDotfiles in one CLI invocation, the process ends, removeDotfiles
\* in the next invocation: what was at each target before applyDotfiles is
\* back at the target.
C26_RestoredAcrossInvocations ==
    \A k \in Applies :
        (/\ trail[k].err = "none"
         /\ k + 2 \in Removes
         /\ trail[k + 1].op = "exit") =>
            \A i \in 1..Len(dotfiles) :
                LET t == resolvePath(dotfiles[i].target) IN
                (Alone(i) /\ HeldFileOrLink(trail[k].pre, t)) =>
                    /\ t \in DOMAIN trail[k + 2].post
                    /\ trail[k + 2].post[t] = trail[k].pre[t]

\* the target of entry i is in g what it was in f
SameTarget(f, g, i) ==
    LET t == resolvePath(dotfiles[i].target) IN
    /\ t \in DOMAIN f <=> t \in DOMAIN g
    /\ t \in DOMAIN f => g[t] = f[t]

\* C27: applyDotfiles twice with no removeDotfiles in between, then
\* removeDotfiles once: every target is what it was before the first
\* applyDotfiles.
C27_DoubleApplyRestores ==
    \A k \in Applies :
        (/\ k + 1 \in Applies
         /\ k + 2 \in Removes
         /\ trail[k].err = "none"
         /\ trail[k + 1].err = "none"
         /\ trail[k + 2].err = "none") =>
            \A i \in 1..Len(dotfiles) :
                Alone(i) => SameTarget(trail[k].pre, trail[k + 2].post, i)

\* C30: an applyDotfiles that fails on some entry leaves every target of the
\* mapping as it was before the call.
C30_ApplyAllOrNothing ==
    \A k \in Applies :
        trail[k].err /= "none" =>
            \A i \in 1..Len(dotfiles) :
                SameTarget(trail[k].pre, trail[k].post, i)

-----------------------------------------------------------------------------
(* Further claims about the directory resolver *)

AllSpace(s) == \A i \in 1..Len(s) : s[i] \in Whitespace

\* what is left of c once the whitespace at both ends is taken off
Trims(c) ==
    {t \in {SubSeq(c, a, z) : a \in 1..(Len(c) + 1), z \in 0..Len(c)} :
        /\ \E a \in 0..Len(c) :
              /\ a + Len(t) <= Len(c)
              /\ AllSpace(SubSeq(c, 1, a))
              /\ SubSeq(c, a + 1, a + Len(t)) = t
              /\ AllSpace(SubSeq(c, a + Len(t) + 1, Len(c)))
        /\ t /= <<>> => (t[1] \notin Whitespace /\ t[Len(t)] \notin Whitespace)}

-----------------------------------------------------------------------------
(* Further claims about activation *)

\* text is value with a backslash before every double quote, backslash,
\* dollar sign and backquote, and with nothing else added
RECURSIVE EscapedAs(_, _)
EscapedAs(text, value) ==
    IF value = <<>> THEN text = <<>>
    ELSE IF Head(value) \in {"\"", "\\", "$", Backquote}
    THEN /\ Len(text) >= 2
         /\ text[1] = "\\"
         /\ text[2] = Head(value)
         /\ EscapedAs(SubSeq(text, 3, Len(text)), Tail(value))
    ELSE /\ text /= <<>>
         /\ text[1] = Head(value)
         /\ EscapedAs(Tail(text), Tail(value))

\* C25: in the output of generateActivationScript, of the hook's activate
\* command and of applyProfile, the export command of every explicit
\* variable carries the variable's value with each double quote, backslash,
\* dollar sign and backquote preceded by a backslash.
C25_ValuesShellEscaped ==
    (/\ out.op \in {"generateActivationScript", "hookActivate",
                    "applyProfile"}
     /\ out.raised = "none") =>
        \A key \in VarKeys(em.profile) :
            \E i \in 1..Len(out.commands) :
                /\ out.commands[i].k = "export"
                /\ out.commands[i].name = key
                /\ EscapedAs(out.commands[i].text,
                             Get(Get(em.profile, "environment"),
                                 "variables").f[key].s)

\* the variables kontext sets for itself and for the hooks
KontextVars ==
    {"KONTEXT_CURRENT_PROFILE", "KONTEXT_PROFILE_DIR", "KONTEXT_PROFILE",
     "KONTEXT_HOOK_TYPE"}

\* the shell after it evaluated the profile's activation script and then
\* the profile's deactivation script
RoundTrip ==
    evalAll(evalAll(Shell(<<>>, <<>>, <<>>),
                    generateActivationScript(em.profile, EnvDir), em.fs),
            generateDeactivationScript(em.profile, EnvDir), em.fs)

\* C29: once the shell has evaluated a profile's activation script and then
\* its deactivation script, none of the env-file keys, of the explicit
\* variables and of kontext's own four variables is set.
C29_ActivateDeactivateLeavesNothing ==
    (/\ sh.evals = <<"generateActivationScript",
                     "generateDeactivationScript">>
     /\ sh.todo = <<>>
     /\ sh.env = RoundTrip.env) =>
        DOMAIN sh.env \cap (VarKeys(em.profile)
                            \cup EnvFileKeys(em.profile, em.fs)
                            \cup KontextVars) = {}

\* the profile the nearest marker of dir designates, empty when no marker
\* governs dir
Designated(m, dir) ==
    IF Holders(m, dir) = {} THEN <<>>
    ELSE trim(m[join(Closest(m, dir), PROFILE_FILE_NAME)].content)

\* the explicit variables of the stored profiles other than name
ForeignKeys(name) ==
    UNION {VarKeys(TaggedProfiles[i]) :
              i \in {j \in 1..Len(TaggedProfiles) :
                        Get(TaggedProfiles[j], "name").s /= name}}

\* C28: with the shell integration installed, after any sequence of cd the
\* shell's KONTEXT_CURRENT_PROFILE is the profile the nearest marker of the
\* current directory designates, unset when there is none, and no variable
\* of another profile is set.
C28_ShellFollowsDirectory ==
    /\ Designated(mfs, sh.pwd) /= <<>> =>
          /\ "KONTEXT_CURRENT_PROFILE" \in DOMAIN sh.env
          /\ sh.env["KONTEXT_CURRENT_PROFILE"] = Designated(mfs, sh.pwd)
    /\ Designated(mfs, sh.pwd) = <<>> =>
          "KONTEXT_CURRENT_PROFILE" \notin DOMAIN sh.env
    /\ DOMAIN sh.env \cap ForeignKeys(Designated(mfs, sh.pwd)) = {}

====
